---- MODULE Spec2Model ----
(***************************************************************************)
(* tailwind-lsp-adapter (src/src/index.ts): the framed-message codec       *)
(* (MessageBuffer.feed, encodeMessage) and the interception engine of      *)
(* main() between the host (process.stdin / process.stdout) and the        *)
(* backing language server (serverProcess.stdin / serverProcess.stdout).   *)
(*                                                                         *)
(* A Buffer is a sequence of bytes (integers 0..255).  A JavaScript value  *)
(* is a tagged record [t |-> <typeof>, v |-> <payload>]; a string is kept  *)
(* as its UTF-8 bytes, an object as the sequence of its own properties in  *)
(* insertion order.                                                        *)
(***************************************************************************)
EXTENDS Integers, Sequences, FiniteSets, TLC

\* The printable ASCII characters in code order: 32 (space) to 95 (_) and 97
\* (a) to 126 (~).
Ascii32 == " !\"#$%&'()*+,-./0123456789:;<=>?@ABCDEFGHIJKLMNOPQRSTUVWXYZ[\\]^_"
Ascii97 == "abcdefghijklmnopqrstuvwxyz{|}~"

IndexIn(str, c) == CHOOSE i \in 1..Len(str) : SubSeq(str, i, i) = c
Chars(str) == {SubSeq(str, i, i) : i \in 1..Len(str)}

CharCode ==
  [c \in Chars(Ascii32) \cup Chars(Ascii97) |->
     IF c \in Chars(Ascii32) THEN 31 + IndexIn(Ascii32, c) ELSE 96 + IndexIn(Ascii97, c)]

\* Buffer.from(s, "utf8") for a string literal s of ASCII characters
Utf8(s) == [i \in 1..Len(s) |-> CharCode[SubSeq(s, i, i)]]

\* const x = <value>; <rest>: the rest of a block with x bound to a value
With(x, rest(_)) == rest(x)

CRLFCRLF == <<13, 10, 13, 10>>

(***************************************************************************)
(* JavaScript values                                                       *)
(***************************************************************************)
Undefined == [t |-> "undefined"]
JNull == [t |-> "null"]
JBool(b) == [t |-> "boolean", v |-> b]
JNum(n) == [t |-> "number", v |-> n]
JStr(bytes) == [t |-> "string", v |-> bytes]
JArr(elems) == [t |-> "array", v |-> elems]
JObj(props) == [t |-> "object", v |-> props]

\* a string value and an object property written with a literal
S(lit) == JStr(Utf8(lit))
P(lit, val) == [k |-> Utf8(lit), v |-> val]

IsNullish(x) == x.t \in {"undefined", "null"}

\* ToBoolean(x): undefined, null, false, 0 and "" are falsy
Truthy(x) ==
  CASE x.t \in {"undefined", "null"} -> FALSE
    [] x.t = "boolean" -> x.v
    [] x.t = "number" -> x.v # 0
    [] x.t = "string" -> x.v # <<>>
    [] OTHER -> TRUE

\* x[key] for a non-nullish x (a property read of null or undefined throws a
\* TypeError, which the callers model); primitives and arrays have none of
\* the keys read by the program
Get(x, key) ==
  IF x.t = "object" /\ \E n \in 1..Len(x.v) : x.v[n].k = key
    THEN x.v[CHOOSE n \in 1..Len(x.v) : x.v[n].k = key].v
    ELSE Undefined

\* x?.[key]
OptGet(x, key) == IF IsNullish(x) THEN Undefined ELSE Get(x, key)

\* a || b
OrElse(a, b) == IF Truthy(a) THEN a ELSE b

\* obj[key] = val, keeping the position of an existing property
Put(props, key, val) ==
  IF \E n \in 1..Len(props) : props[n].k = key
    THEN [n \in 1..Len(props) |->
            IF props[n].k = key THEN [k |-> key, v |-> val] ELSE props[n]]
    ELSE Append(props, [k |-> key, v |-> val])

(***************************************************************************)
(* JSON.stringify, for values JSON.parse can produce plus objects with     *)
(* undefined-valued properties (which are left out).                       *)
(***************************************************************************)
RECURSIVE Digits(_)
Digits(n) == IF n < 10 THEN <<48 + n>> ELSE Digits(n \div 10) \o <<48 + (n % 10)>>

NumberToString(n) == IF n < 0 THEN <<45>> \o Digits(0 - n) ELSE Digits(n)

\* QuoteJSONString: the quote and the backslash are escaped (the values of
\* this model hold no control characters)
RECURSIVE Escape(_, _)
Escape(s, i) ==
  LET special(k) == s[k] \in {34, 92}
  IN IF \E k \in i..Len(s) : special(k)
       THEN LET k == CHOOSE k \in i..Len(s) : special(k) /\ \A m \in i..(k - 1) : ~special(m)
            IN SubSeq(s, i, k - 1) \o <<92, s[k]>> \o Escape(s, k + 1)
       ELSE SubSeq(s, i, Len(s))

Quote(s) == <<34>> \o Escape(s, 1) \o <<34>>

RECURSIVE JSONstringify(_), StringifyElements(_, _), StringifyProperties(_, _, _)
JSONstringify(x) ==
  CASE x.t = "null" -> Utf8("null")
    [] x.t = "boolean" -> IF x.v THEN Utf8("true") ELSE Utf8("false")
    [] x.t = "number" -> NumberToString(x.v)
    [] x.t = "string" -> Quote(x.v)
    [] x.t = "array" -> <<91>> \o StringifyElements(x.v, 1) \o <<93>>
    [] x.t = "object" -> <<123>> \o StringifyProperties(x.v, 1, TRUE) \o <<125>>

StringifyElements(elems, i) ==
  IF i > Len(elems) THEN <<>>
  ELSE (IF i > 1 THEN <<44>> ELSE <<>>)
       \o (IF elems[i].t = "undefined" THEN Utf8("null") ELSE JSONstringify(elems[i]))
       \o StringifyElements(elems, i + 1)

StringifyProperties(props, i, first) ==
  IF i > Len(props) THEN <<>>
  ELSE IF props[i].v.t = "undefined" THEN StringifyProperties(props, i + 1, first)
  ELSE (IF first THEN <<>> ELSE <<44>>)
       \o Quote(props[i].k) \o <<58>> \o JSONstringify(props[i].v)
       \o StringifyProperties(props, i + 1, FALSE)

(***************************************************************************)
(* JSON.parse: a recursive-descent parser of the JSON grammar over bytes.  *)
(* Numbers are integers; the escapes \" \\ \/ are read; the other escapes, *)
(* fractions and exponents lie outside the values of this model and are    *)
(* reported as a SyntaxError.  A parse result is [ok, v, i]: success, the  *)
(* value, the index after it.                                              *)
(***************************************************************************)
Fail == [ok |-> FALSE, v |-> JNull, i |-> 0]
Ok(val, next) == [ok |-> TRUE, v |-> val, i |-> next]

IsDigit(b) == b >= 48 /\ b <= 57
IsWs(b) == b \in {9, 10, 13, 32}

RECURSIVE SkipWs(_, _)
SkipWs(s, i) == IF i <= Len(s) /\ IsWs(s[i]) THEN SkipWs(s, i + 1) ELSE i

HasAt(s, i, lit) ==
  i + Len(lit) - 1 <= Len(s) /\ SubSeq(s, i, i + Len(lit) - 1) = lit

\* the characters of a string up to its closing quote, read from s[i] on:
\* plain characters up to the next quote, backslash or control character
RECURSIVE ParseChars(_, _, _)
ParseChars(s, i, acc) ==
  LET stop(k) == s[k] \in {34, 92} \/ s[k] < 32
  IN IF ~\E k \in i..Len(s) : stop(k) THEN Fail
     ELSE LET k == CHOOSE k \in i..Len(s) : stop(k) /\ \A m \in i..(k - 1) : ~stop(m)
              plain == acc \o SubSeq(s, i, k - 1)
          IN IF s[k] = 34 THEN Ok(JStr(plain), k + 1)
             ELSE IF s[k] = 92 /\ k + 1 <= Len(s) /\ s[k + 1] \in {34, 92, 47}
               THEN ParseChars(s, k + 2, Append(plain, s[k + 1]))
             ELSE Fail

RECURSIVE ParseDigits(_, _, _)
ParseDigits(s, i, n) ==
  IF i <= Len(s) /\ IsDigit(s[i])
    THEN ParseDigits(s, i + 1, 10 * n + (s[i] - 48))
    ELSE [n |-> n, i |-> i]

ParseNumber(s, i) ==
  LET neg == s[i] = 45
      j == IF neg THEN i + 1 ELSE i
  IN IF j > Len(s) \/ ~IsDigit(s[j]) THEN Fail
     ELSE IF s[j] = 48 /\ j + 1 <= Len(s) /\ IsDigit(s[j + 1]) THEN Fail
     ELSE LET d == ParseDigits(s, j, 0)
          IN IF d.i <= Len(s) /\ s[d.i] \in {46, 69, 101} THEN Fail
             ELSE Ok(JNum(IF neg THEN 0 - d.n ELSE d.n), d.i)

RECURSIVE ParseValue(_, _), ParseElements(_, _, _), ParseMembers(_, _, _)
ParseValue(s, i0) ==
  LET i == SkipWs(s, i0)
  IN IF i > Len(s) THEN Fail
     ELSE CASE s[i] = 110 -> IF HasAt(s, i, Utf8("null")) THEN Ok(JNull, i + 4) ELSE Fail
            [] s[i] = 116 -> IF HasAt(s, i, Utf8("true")) THEN Ok(JBool(TRUE), i + 4) ELSE Fail
            [] s[i] = 102 -> IF HasAt(s, i, Utf8("false")) THEN Ok(JBool(FALSE), i + 5) ELSE Fail
            [] s[i] = 34 -> ParseChars(s, i + 1, <<>>)
            [] s[i] = 91 ->
                 LET j == SkipWs(s, i + 1)
                 IN IF j <= Len(s) /\ s[j] = 93 THEN Ok(JArr(<<>>), j + 1)
                    ELSE ParseElements(s, j, <<>>)
            [] s[i] = 123 ->
                 LET j == SkipWs(s, i + 1)
                 IN IF j <= Len(s) /\ s[j] = 125 THEN Ok(JObj(<<>>), j + 1)
                    ELSE ParseMembers(s, j, <<>>)
            [] s[i] = 45 \/ IsDigit(s[i]) -> ParseNumber(s, i)
            [] OTHER -> Fail

ParseElements(s, i, acc) ==
  LET r == ParseValue(s, i)
  IN IF ~r.ok THEN Fail
     ELSE LET j == SkipWs(s, r.i)
          IN IF j > Len(s) THEN Fail
             ELSE IF s[j] = 44 THEN ParseElements(s, j + 1, Append(acc, r.v))
             ELSE IF s[j] = 93 THEN Ok(JArr(Append(acc, r.v)), j + 1)
             ELSE Fail

ParseMembers(s, i0, acc) ==
  LET i == SkipWs(s, i0)
  IN IF i > Len(s) \/ s[i] # 34 THEN Fail
     ELSE LET key == ParseChars(s, i + 1, <<>>)
          IN IF ~key.ok THEN Fail
             ELSE LET c == SkipWs(s, key.i)
                  IN IF c > Len(s) \/ s[c] # 58 THEN Fail
                     ELSE LET r == ParseValue(s, c + 1)
                          IN IF ~r.ok THEN Fail
                             ELSE LET j == SkipWs(s, r.i)
                                      props == Put(acc, key.v.v, r.v)
                                  IN IF j > Len(s) THEN Fail
                                     ELSE IF s[j] = 44 THEN ParseMembers(s, j + 1, props)
                                     ELSE IF s[j] = 125 THEN Ok(JObj(props), j + 1)
                                     ELSE Fail

\* [ok |-> FALSE] stands for the SyntaxError JSON.parse throws
\* the text s is one value r and white space
\* a body that is no JSON text read as null instead of a SyntaxError
NullWhenUnparsable(s, r) ==
  IF r.ok /\ SkipWs(s, r.i) > Len(s)
    THEN [ok |-> TRUE, v |-> r.v]
    ELSE [ok |-> TRUE, v |-> JNull]

WholeText(s, r) ==
  IF r.ok /\ SkipWs(s, r.i) > Len(s)
    THEN [ok |-> TRUE, v |-> r.v]
    ELSE [ok |-> FALSE, v |-> JNull]

JSONparse(s) == WholeText(s, ParseValue(s, 1))

(***************************************************************************)
(* Buffer helpers                                                          *)
(***************************************************************************)
\* buf.indexOf(pat) searched from the 0-based offset `from`: the 0-based
\* offset of the first occurrence, -1 when there is none
indexOf(buf, pat, from) ==
  LET at(k) == SubSeq(buf, k + 1, k + Len(pat)) = pat
      starts == from..(Len(buf) - Len(pat))
  IN IF \E k \in starts : at(k)
       THEN CHOOSE k \in starts : at(k) /\ \A m \in from..(k - 1) : ~at(m)
       ELSE 0 - 1

\* buf.subarray(start) and buf.subarray(start, end), 0-based, end exclusive
subarrayFrom(buf, start) == SubSeq(buf, start + 1, Len(buf))
subarray(buf, start, end) == SubSeq(buf, start + 1, end)

\* body.length, the number of UTF-16 code units of the string: what the
\* header would declare if the length were taken of the string instead of
\* its bytes (for the one- to three-byte characters of this model, the bytes
\* that are not continuation bytes)
stringLength(body) == Cardinality({k \in 1..Len(body) : body[k] < 128 \/ body[k] > 191})

\* Buffer.byteLength(body, "utf-8")
byteLength(body) == Len(body)

(***************************************************************************)
(* headerStr.match(/Content-Length:\s*(\d+)/i): capture group 1 of the     *)
(* leftmost match, <<>> when there is no match.                            *)
(***************************************************************************)
ToLower(b) == IF b >= 65 /\ b <= 90 THEN b + 32 ELSE b
IsSpace(b) == b \in {9, 10, 11, 12, 13, 32}

RECURSIVE SkipSpace(_, _)
SkipSpace(h, i) == IF i <= Len(h) /\ IsSpace(h[i]) THEN SkipSpace(h, i + 1) ELSE i

RECURSIVE TakeDigits(_, _)
TakeDigits(h, i) ==
  IF i <= Len(h) /\ IsDigit(h[i]) THEN <<h[i]>> \o TakeDigits(h, i + 1) ELSE <<>>

RECURSIVE MatchFrom(_, _)
MatchFrom(h, p) ==
  LET name == Utf8("content-length:")
  IN IF p + Len(name) - 1 > Len(h) THEN <<>>
     ELSE IF [n \in 1..Len(name) |-> ToLower(h[p + n - 1])] = name
            THEN LET d == TakeDigits(h, SkipSpace(h, p + Len(name)))
                 IN IF d # <<>> THEN d ELSE MatchFrom(h, p + 1)
     ELSE MatchFrom(h, p + 1)

matchContentLength(headerStr) == MatchFrom(headerStr, 1)

\* parseInt(digits, 10)
RECURSIVE parseIntFrom(_, _, _)
parseIntFrom(d, i, n) ==
  IF i > Len(d) THEN n ELSE parseIntFrom(d, i + 1, 10 * n + (d[i] - 48))

parseInt(d) == parseIntFrom(d, 1, 0)

(***************************************************************************)
(* class MessageBuffer: [buffer, contentLength]; contentLength is <<>> for *)
(* null and <<n>> for the number n.                                        *)
(***************************************************************************)
NewMessageBuffer == [buffer |-> <<>>, contentLength |-> <<>>]

\* this.buffer.subarray(headerEnd + 4) after a header block without a
\* Content-Length match (line 224) and after one with a match (line 229);
\* the ...Resets variants empty the buffer instead (Buffer.alloc(0))
skipMalformedHeaderResets(buffer, headerEnd) == <<>>
skipMalformedHeader(buffer, headerEnd) == subarrayFrom(buffer, headerEnd + 4)
consumeHeader(buffer, headerEnd) == subarrayFrom(buffer, headerEnd + 4)

\* the body taken off the buffer (line 235) and what stays buffered (line 236)
bodyOf(buffer, contentLength) == subarray(buffer, 0, contentLength)
afterBodyResets(buffer, contentLength) == <<>>
afterBody(buffer, contentLength) == subarrayFrom(buffer, contentLength)

\* the turn that also waits when the buffer holds exactly the body
feedTurnWaitsForMore(buffer, contentLength, messages) ==
  LET turn(done, b, c, m) ==
        [done |-> done, buffer |-> b, contentLength |-> c, messages |-> m]
      body(buf, n) ==
        IF Len(buf) <= n THEN turn(TRUE, buf, <<n>>, messages)
        ELSE With(JSONparse(bodyOf(buf, n)), LAMBDA parsed :
          turn(FALSE, afterBody(buf, n), <<>>,
               IF parsed.ok THEN Append(messages, parsed.v) ELSE messages))
  IN IF contentLength # <<>> THEN body(buffer, contentLength[1])
     ELSE With(indexOf(buffer, CRLFCRLF, 0), LAMBDA headerEnd :
       IF headerEnd = 0 - 1 THEN turn(TRUE, buffer, <<>>, messages)
       ELSE With(matchContentLength(subarray(buffer, 0, headerEnd)), LAMBDA match :
         IF match = <<>>
           THEN turn(FALSE, skipMalformedHeader(buffer, headerEnd), <<>>, messages)
           ELSE body(consumeHeader(buffer, headerEnd), parseInt(match))))

\* one turn of the while (true) loop of feed; done when the turn ends in a
\* break
feedTurn(buffer, contentLength, messages) ==
  LET turn(done, b, c, m) ==
        [done |-> done, buffer |-> b, contentLength |-> c, messages |-> m]
      \* the body is complete if buf holds n bytes
      body(buf, n) ==
        IF Len(buf) < n THEN turn(TRUE, buf, <<n>>, messages)
        ELSE With(JSONparse(bodyOf(buf, n)), LAMBDA parsed :
          turn(FALSE, afterBody(buf, n), <<>>,
               IF parsed.ok THEN Append(messages, parsed.v) ELSE messages))
  IN IF contentLength # <<>> THEN body(buffer, contentLength[1])
     ELSE With(indexOf(buffer, CRLFCRLF, 0), LAMBDA headerEnd :
       IF headerEnd = 0 - 1 THEN turn(TRUE, buffer, <<>>, messages)
       ELSE With(matchContentLength(subarray(buffer, 0, headerEnd)), LAMBDA match :
         IF match = <<>>
           THEN turn(FALSE, skipMalformedHeader(buffer, headerEnd), <<>>, messages)
           ELSE body(consumeHeader(buffer, headerEnd), parseInt(match))))

\* the loop; the result carries the decoder's fields after the loop and the
\* messages it returns
RECURSIVE feedLoop(_, _, _)
feedLoop(buffer, contentLength, messages) ==
  With(feedTurn(buffer, contentLength, messages), LAMBDA turn :
    IF turn.done
      THEN [buffer |-> turn.buffer, contentLength |-> turn.contentLength,
            messages |-> turn.messages]
      ELSE feedLoop(turn.buffer, turn.contentLength, turn.messages))

\* feed as it would be if contentLength were a local of the call instead of
\* a field of the decoder
feedForgetsLength(mb, data) == feedLoop(mb.buffer \o data, <<>>, <<>>)

\* feed(data): this.buffer = Buffer.concat([this.buffer, data]), then the loop
feed(mb, data) == feedLoop(mb.buffer \o data, mb.contentLength, <<>>)

\* the header declares the number of characters of the body
encodeMessageCharacters(msg) ==
  LET body == JSONstringify(msg)
      header == Utf8("Content-Length: ") \o NumberToString(stringLength(body)) \o CRLFCRLF
  IN header \o body

\* encodeMessage(msg)
encodeMessage(msg) ==
  LET body == JSONstringify(msg)
      header == Utf8("Content-Length: ") \o NumberToString(byteLength(body)) \o CRLFCRLF
  IN header \o body

(***************************************************************************)
(* More of JavaScript: property reads with a literal key, iteration, Map.  *)
(***************************************************************************)
\* x.lit and x?.lit
F(x, lit) == Get(x, Utf8(lit))
OF(x, lit) == OptGet(x, Utf8(lit))

IsString(x) == x.t = "string"
IsArray(x) == x.t = "array"

\* for (const e of x): arrays and strings are iterable (a string yields its
\* characters; the strings of this model are ASCII where they are iterated),
\* anything else throws a TypeError
Iterable(x) == x.t \in {"array", "string"}
Elements(x) == IF x.t = "array" THEN x.v ELSE [n \in 1..Len(x.v) |-> JStr(<<x.v[n]>>)]

\* { ...x }: the own enumerable properties of x: those of an object, the
\* index properties of an array or of a string, none of anything else
Spread(x) ==
  CASE x.t = "object" -> x.v
    [] x.t = "array" -> [n \in 1..Len(x.v) |-> [k |-> Digits(n - 1), v |-> x.v[n]]]
    [] x.t = "string" -> [n \in 1..Len(x.v) |-> [k |-> Digits(n - 1), v |-> JStr(<<x.v[n]>>)]]
    [] OTHER -> <<>>

\* { ...x, k1: v1, ... }: extra is the sequence of the properties written
\* after the spread
RECURSIVE PutAll(_, _)
PutAll(props, extra) ==
  IF extra = <<>> THEN props
  ELSE PutAll(Put(props, Head(extra).k, Head(extra).v), Tail(extra))

\* { k1: v1, ... }: the literal without the spread
LiteralOnly(x, extra) == JObj(PutAll(<<>>, extra))
SpreadWith(x, extra) == JObj(PutAll(Spread(x), extra))

\* a Map as the sequence of its entries [k, v] in insertion order
MapHas(m, key) == \E n \in 1..Len(m) : m[n].k = key
MapGet(m, key) ==
  IF MapHas(m, key) THEN m[CHOOSE n \in 1..Len(m) : m[n].k = key].v ELSE Undefined
MapSet(m, key, val) == Put(m, key, val)
MapDelete(m, key) == SelectSeq(m, LAMBDA e : e.k # key)

\* s.startsWith(prefix), s.endsWith(suffix) on strings kept as bytes
startsWith(s, prefix) == Len(prefix) <= Len(s) /\ SubSeq(s, 1, Len(prefix)) = prefix
endsWith(s, suffix) ==
  Len(suffix) <= Len(s) /\ SubSeq(s, Len(s) - Len(suffix) + 1, Len(s)) = suffix

(***************************************************************************)
(* detectTailwindV4Entrypoint.  ENTRYPOINT is process.env                   *)
(* .TAILWIND_CSS_ENTRYPOINT ("" when unset); grep is what execFileSync      *)
(* does in this call: [err |-> TRUE] when it throws (exit status 1 for no   *)
(* match, a timeout, a failure), else the lines it printed.  The result is  *)
(* the returned value, the cache after the call and whether grep was run.   *)
(***************************************************************************)
priorities == <<Utf8("index.css"), Utf8("app.css"), Utf8("styles.css"), Utf8("global.css"), Utf8("main.css")>>

\* files.find(f => f.endsWith(`/src/${priority}`) || f.endsWith(`/${priority}`))
findPriority(files, priority) ==
  LET hit(f) == endsWith(f, Utf8("/src/") \o priority) \/ endsWith(f, <<47>> \o priority)
  IN IF \E n \in 1..Len(files) : hit(files[n])
       THEN <<files[CHOOSE n \in 1..Len(files) :
                      hit(files[n]) /\ \A k \in 1..(n - 1) : ~hit(files[k])]>>
       ELSE <<>>

\* the for loop over priorities: the first priority with a match decides
RECURSIVE bestMatchFrom(_, _)
bestMatchFrom(files, i) ==
  IF i > Len(priorities) THEN files[1]
  ELSE With(findPriority(files, priorities[i]), LAMBDA match :
    IF match # <<>> THEN match[1] ELSE bestMatchFrom(files, i + 1))

\* lines 137-162: the first 5 lines, the best match, made relative to the root
entrypointOf(lines, root) ==
  With(SelectSeq(SubSeq(lines, 1, IF Len(lines) < 5 THEN Len(lines) ELSE 5),
                 LAMBDA f : f # <<>>), LAMBDA files :
    IF files = <<>> THEN JNull
    ELSE With(bestMatchFrom(files, 1), LAMBDA bestMatch :
      IF startsWith(bestMatch, root)
        THEN JStr(SubSeq(bestMatch, Len(root) + 2, Len(bestMatch)))
        ELSE JStr(bestMatch)))

\* the workspace root is asked for before the override is looked at
detectRootFirst(detectedCssEntrypoint, workspaceRoot, ENTRYPOINT, grep) ==
  IF detectedCssEntrypoint.t # "undefined"
    THEN [value |-> detectedCssEntrypoint, detectedCssEntrypoint |-> detectedCssEntrypoint,
          searched |-> FALSE]
  ELSE IF ~Truthy(workspaceRoot)
    THEN [value |-> JNull, detectedCssEntrypoint |-> JNull, searched |-> FALSE]
  ELSE IF ENTRYPOINT # <<>>
    THEN [value |-> JStr(ENTRYPOINT), detectedCssEntrypoint |-> JStr(ENTRYPOINT),
          searched |-> FALSE]
  ELSE With(IF grep.err THEN JNull ELSE entrypointOf(grep.lines, workspaceRoot.v),
            LAMBDA found :
              [value |-> found, detectedCssEntrypoint |-> found, searched |-> TRUE])

\* a failed search is not cached
detectForgetsFailure(detectedCssEntrypoint, workspaceRoot, ENTRYPOINT, grep) ==
  IF detectedCssEntrypoint.t # "undefined"
    THEN [value |-> detectedCssEntrypoint, detectedCssEntrypoint |-> detectedCssEntrypoint,
          searched |-> FALSE]
  ELSE IF ENTRYPOINT # <<>>
    THEN [value |-> JStr(ENTRYPOINT), detectedCssEntrypoint |-> JStr(ENTRYPOINT),
          searched |-> FALSE]
  ELSE IF ~Truthy(workspaceRoot)
    THEN [value |-> JNull, detectedCssEntrypoint |-> JNull, searched |-> FALSE]
  ELSE With(IF grep.err THEN JNull ELSE entrypointOf(grep.lines, workspaceRoot.v),
            LAMBDA found :
              [value |-> found,
               detectedCssEntrypoint |-> IF grep.err THEN detectedCssEntrypoint ELSE found,
               searched |-> TRUE])

\* the function without its first three lines: the cache is not consulted
detectUncached(detectedCssEntrypoint, workspaceRoot, ENTRYPOINT, grep) ==
  IF ENTRYPOINT # <<>>
    THEN [value |-> JStr(ENTRYPOINT), detectedCssEntrypoint |-> JStr(ENTRYPOINT),
          searched |-> FALSE]
  ELSE IF ~Truthy(workspaceRoot)
    THEN [value |-> JNull, detectedCssEntrypoint |-> JNull, searched |-> FALSE]
  ELSE With(IF grep.err THEN JNull ELSE entrypointOf(grep.lines, workspaceRoot.v),
            LAMBDA found :
              [value |-> found, detectedCssEntrypoint |-> found, searched |-> TRUE])

detectTailwindV4Entrypoint(detectedCssEntrypoint, workspaceRoot, ENTRYPOINT, grep) ==
  IF detectedCssEntrypoint.t # "undefined"
    THEN [value |-> detectedCssEntrypoint, detectedCssEntrypoint |-> detectedCssEntrypoint,
          searched |-> FALSE]
  ELSE IF ENTRYPOINT # <<>>
    THEN [value |-> JStr(ENTRYPOINT), detectedCssEntrypoint |-> JStr(ENTRYPOINT),
          searched |-> FALSE]
  ELSE IF ~Truthy(workspaceRoot)
    THEN [value |-> JNull, detectedCssEntrypoint |-> JNull, searched |-> FALSE]
  ELSE With(IF grep.err THEN JNull ELSE entrypointOf(grep.lines, workspaceRoot.v),
            LAMBDA found :
              [value |-> found, detectedCssEntrypoint |-> found, searched |-> TRUE])

(***************************************************************************)
(* Intercepted method handlers.  Each result carries threw (a TypeError    *)
(* left the handler), the state the handler leaves and, when it returned,  *)
(* its response.                                                           *)
(***************************************************************************)
Response(id, result) == JObj(<<P("jsonrpc", S("2.0")), P("id", id), P("result", result)>>)

\* the for loop of handleRegisterCapability: reg.id of a null entry throws
RECURSIVE registerAll(_, _, _)
registerAll(regs, i, caps) ==
  IF i > Len(regs) THEN [threw |-> FALSE, caps |-> caps]
  ELSE IF IsNullish(regs[i]) THEN [threw |-> TRUE, caps |-> caps]
  ELSE registerAll(regs, i + 1,
         MapSet(caps, F(regs[i], "id"),
                JObj(<<P("method", F(regs[i], "method")),
                       P("registerOptions", F(regs[i], "registerOptions"))>>)))

\* the request is answered and nothing is recorded
acceptWithoutRecording(msg, caps) ==
  [threw |-> FALSE, registeredCapabilities |-> caps, response |-> Response(F(msg, "id"), JNull)]

handleRegisterCapability(msg, caps) ==
  With(OrElse(OF(F(msg, "params"), "registrations"), JArr(<<>>)), LAMBDA registrations :
    IF ~Iterable(registrations)
      THEN [threw |-> TRUE, registeredCapabilities |-> caps, response |-> JNull]
      ELSE With(registerAll(Elements(registrations), 1, caps), LAMBDA r :
        [threw |-> r.threw, registeredCapabilities |-> r.caps,
         response |-> Response(F(msg, "id"), JNull)]))

\* the for loop of handleUnregisterCapability
RECURSIVE unregisterAll(_, _, _)
unregisterAll(unregs, i, caps) ==
  IF i > Len(unregs) THEN [threw |-> FALSE, caps |-> caps]
  ELSE IF IsNullish(unregs[i]) THEN [threw |-> TRUE, caps |-> caps]
  ELSE unregisterAll(unregs, i + 1, MapDelete(caps, F(unregs[i], "id")))

\* an unregistration of an id that is not registered is refused
unregisterKnownOnly(msg, caps) ==
  With(OrElse(OF(F(msg, "params"), "unregisterations"),
              OrElse(OF(F(msg, "params"), "unregistrations"), JArr(<<>>))),
       LAMBDA unregistrations :
    IF ~Iterable(unregistrations)
      THEN [threw |-> TRUE, registeredCapabilities |-> caps, response |-> JNull]
      ELSE With(unregisterAll(Elements(unregistrations), 1, caps), LAMBDA r :
        [threw |-> r.threw \/ r.caps = caps, registeredCapabilities |-> r.caps,
         response |-> Response(F(msg, "id"), JNull)]))

handleUnregisterCapability(msg, caps) ==
  With(OrElse(OF(F(msg, "params"), "unregisterations"),
              OrElse(OF(F(msg, "params"), "unregistrations"), JArr(<<>>))),
       LAMBDA unregistrations :
    IF ~Iterable(unregistrations)
      THEN [threw |-> TRUE, registeredCapabilities |-> caps, response |-> JNull]
      ELSE With(unregisterAll(Elements(unregistrations), 1, caps), LAMBDA r :
        [threw |-> r.threw, registeredCapabilities |-> r.caps,
         response |-> Response(F(msg, "id"), JNull)]))

\* the object returned for the section tailwindCSS (lines 320-340)
tailwindDefaultsNullConfigFile(configFile) ==
  JObj(<<P("emmetCompletions", JBool(FALSE)),
         P("includeLanguages", JObj(<<>>)),
         P("classAttributes", JArr(<<S("class"), S("className"), S("ngClass")>>)),
         P("lint", JObj(<<P("cssConflict", S("warning")),
                          P("invalidApply", S("error")),
                          P("invalidScreen", S("error")),
                          P("invalidVariant", S("error")),
                          P("invalidConfigPath", S("error")),
                          P("invalidTailwindDirective", S("error")),
                          P("recommendedVariantOrder", S("warning"))>>)),
         P("experimental", JObj(<<P("configFile", JNull)>>)),
         P("showPixelEquivalents", JBool(TRUE)),
         P("rootFontSize", JNum(16))>>)
tailwindDefaults(configFile) ==
  JObj(<<P("emmetCompletions", JBool(FALSE)),
         P("includeLanguages", JObj(<<>>)),
         P("classAttributes", JArr(<<S("class"), S("className"), S("ngClass")>>)),
         P("lint", JObj(<<P("cssConflict", S("warning")),
                          P("invalidApply", S("error")),
                          P("invalidScreen", S("error")),
                          P("invalidVariant", S("error")),
                          P("invalidConfigPath", S("error")),
                          P("invalidTailwindDirective", S("error")),
                          P("recommendedVariantOrder", S("warning"))>>)),
         P("experimental", JObj(<<P("configFile", configFile)>>)),
         P("showPixelEquivalents", JBool(TRUE)),
         P("rootFontSize", JNum(16))>>)

editorDefaults == JObj(<<P("tabSize", JNum(2))>>)

\* the callback of items.map: item.section of a null item throws
RECURSIVE configurationResults(_, _, _, _, _, _)
configurationResults(items, i, results, detected, workspaceRoot, env) ==
  IF i > Len(items)
    THEN [threw |-> FALSE, results |-> results, detectedCssEntrypoint |-> detected,
          searched |-> FALSE]
  ELSE IF IsNullish(items[i])
    THEN [threw |-> TRUE, results |-> results, detectedCssEntrypoint |-> detected,
          searched |-> FALSE]
  ELSE IF F(items[i], "section") = S("tailwindCSS")
    THEN With(detectTailwindV4Entrypoint(detected, workspaceRoot, env.ENTRYPOINT, env.grep),
              LAMBDA d :
      With(configurationResults(items, i + 1, Append(results, tailwindDefaults(d.value)),
                                d.detectedCssEntrypoint, workspaceRoot, env),
           LAMBDA r : [r EXCEPT !.searched = d.searched \/ r.searched]))
  ELSE IF F(items[i], "section") = S("editor")
    THEN configurationResults(items, i + 1, Append(results, editorDefaults),
                              detected, workspaceRoot, env)
  ELSE configurationResults(items, i + 1, Append(results, JObj(<<>>)),
                            detected, workspaceRoot, env)

\* items.map exists on arrays only: a truthy items that is no array throws
handleWorkspaceConfiguration(msg, detected, workspaceRoot, env) ==
  With(OrElse(OF(F(msg, "params"), "items"), JArr(<<>>)), LAMBDA items :
    IF ~IsArray(items)
      THEN [threw |-> TRUE, detectedCssEntrypoint |-> detected, searched |-> FALSE,
            response |-> JNull]
      ELSE With(configurationResults(items.v, 1, <<>>, detected, workspaceRoot, env),
                LAMBDA r :
        [threw |-> r.threw, detectedCssEntrypoint |-> r.detectedCssEntrypoint,
         searched |-> r.searched,
         response |-> Response(F(msg, "id"), JArr(r.results))]))

handleWorkDoneProgressCreate(msg) == Response(F(msg, "id"), JNull)

(***************************************************************************)
(* validateWorkspacePath.  The file system is the one of the modelled      *)
(* machine: Directories and Files exist, nothing else does; CWD is         *)
(* process.cwd().                                                          *)
(***************************************************************************)
FORBIDDEN_PATHS ==
  <<Utf8("/etc"), Utf8("/usr"), Utf8("/bin"), Utf8("/sbin"), Utf8("/var"),
    Utf8("/root"), Utf8("/sys"), Utf8("/proc"), Utf8("/dev")>>

CWD == Utf8("/srv")
Directories ==
  {Utf8("/"), Utf8("/srv"), Utf8("/w"), Utf8("/w/src"), Utf8("/etc"), Utf8("/etc/ssl"),
   Utf8("/devel"), Utf8("/w/locked"), Utf8("/w/locked/src")}
Files == {Utf8("/w/a.css"), Utf8("/etc/passwd")}
\* directories the process may not search: what lies under them cannot be
\* accessed
Unsearchable == {Utf8("/w/locked")}

\* s.split("/")
RECURSIVE splitSlash(_, _, _)
splitSlash(s, i, cur) ==
  IF i > Len(s) THEN <<cur>>
  ELSE IF s[i] = 47 THEN <<cur>> \o splitSlash(s, i + 1, <<>>)
  ELSE splitSlash(s, i + 1, Append(cur, s[i]))

\* the segments left after "." and "" are dropped and ".." removes its parent
RECURSIVE normalizeSegments(_, _)
normalizeSegments(segs, acc) ==
  IF segs = <<>> THEN acc
  ELSE IF Head(segs) \in {<<>>, <<46>>} THEN normalizeSegments(Tail(segs), acc)
  ELSE IF Head(segs) = <<46, 46>>
    THEN normalizeSegments(Tail(segs), IF acc = <<>> THEN acc ELSE SubSeq(acc, 1, Len(acc) - 1))
  ELSE normalizeSegments(Tail(segs), Append(acc, Head(segs)))

RECURSIVE joinSegments(_)
joinSegments(segs) ==
  IF segs = <<>> THEN <<>> ELSE <<47>> \o Head(segs) \o joinSegments(Tail(segs))

\* path.resolve(rootPath) on POSIX
resolve(rootPath) ==
  LET abs == IF rootPath # <<>> /\ rootPath[1] = 47 THEN rootPath ELSE CWD \o <<47>> \o rootPath
  IN With(normalizeSegments(splitSlash(abs, 1, <<>>), <<>>), LAMBDA segs :
       IF segs = <<>> THEN <<47>> ELSE joinSegments(segs))

\* the check without the "/" that ends the forbidden directory's name
isForbiddenPrefix(resolved) ==
  \E n \in 1..Len(FORBIDDEN_PATHS) : startsWith(resolved, FORBIDDEN_PATHS[n])

isForbidden(resolved) ==
  \E n \in 1..Len(FORBIDDEN_PATHS) :
    resolved = FORBIDDEN_PATHS[n] \/ startsWith(resolved, FORBIDDEN_PATHS[n] \o <<47>>)

\* fs.statSync(path): what the path is, or the error thrown
statSync(path) ==
  IF \E d \in Unsearchable : startsWith(path, d \o <<47>>) THEN "EACCES"
  ELSE IF path \in Directories THEN "directory"
  ELSE IF path \in Files THEN "file"
  ELSE "ENOENT"

\* any existing directory is taken
validateExistingDirectory(rootPath) ==
  With(resolve(rootPath), LAMBDA resolved :
    IF statSync(resolved) # "directory" THEN JNull ELSE JStr(resolved))

\* the validated path as a string, or null
validateWorkspacePath(rootPath) ==
  With(resolve(rootPath), LAMBDA resolved :
    IF isForbidden(resolved) THEN JNull
    ELSE IF statSync(resolved) # "directory" THEN JNull
    ELSE JStr(resolved))

(***************************************************************************)
(* decodeURIComponent: %XX becomes the byte XX; a % that is not followed   *)
(* by two hexadecimal digits throws a URIError.  (The escapes of this      *)
(* model are ASCII, so the decoded bytes are valid UTF-8.)                 *)
(***************************************************************************)
IsHex(b) == IsDigit(b) \/ (b >= 65 /\ b <= 70) \/ (b >= 97 /\ b <= 102)
HexValue(b) == IF IsDigit(b) THEN b - 48 ELSE IF b >= 97 THEN b - 87 ELSE b - 55

RECURSIVE decodeFrom(_, _, _)
decodeFrom(s, i, acc) ==
  IF i > Len(s) THEN [threw |-> FALSE, v |-> acc]
  ELSE IF s[i] # 37 THEN decodeFrom(s, i + 1, Append(acc, s[i]))
  ELSE IF i + 2 <= Len(s) /\ IsHex(s[i + 1]) /\ IsHex(s[i + 2])
    THEN decodeFrom(s, i + 3, Append(acc, 16 * HexValue(s[i + 1]) + HexValue(s[i + 2])))
  ELSE [threw |-> TRUE, v |-> acc]

decodeURIComponent(s) == decodeFrom(s, 1, <<>>)

(***************************************************************************)
(* patchInitializeRequest.  The result carries threw, the message to       *)
(* forward and the session state after the call.                           *)
(***************************************************************************)
\* the root is captured and the resolver is left for the first query
captureRootLazy(rootUri, workspaceRoot, detected, env) ==
  LET isFile == startsWith(rootUri.v, Utf8("file://"))
      same(threw) == [threw |-> threw, workspaceRoot |-> workspaceRoot,
                      detectedCssEntrypoint |-> detected, searched |-> FALSE]
  IN IF ~IsString(rootUri) THEN same(TRUE)
     ELSE With(decodeURIComponent(SubSeq(rootUri.v, 8, Len(rootUri.v))), LAMBDA decoded :
       IF isFile /\ decoded.threw THEN same(TRUE)
       ELSE With(validateWorkspacePath(IF isFile THEN decoded.v ELSE rootUri.v),
                 LAMBDA validatedPath :
         IF ~Truthy(validatedPath) THEN same(FALSE)
         ELSE [threw |-> FALSE, workspaceRoot |-> validatedPath,
               detectedCssEntrypoint |-> detected, searched |-> FALSE]))

\* lines 686-707: the workspace root capture; rootUri is truthy here
captureRoot(rootUri, workspaceRoot, detected, env) ==
  LET isFile == startsWith(rootUri.v, Utf8("file://"))
      same(threw) == [threw |-> threw, workspaceRoot |-> workspaceRoot,
                      detectedCssEntrypoint |-> detected, searched |-> FALSE]
  IN IF ~IsString(rootUri) THEN same(TRUE)
     ELSE With(decodeURIComponent(SubSeq(rootUri.v, 8, Len(rootUri.v))), LAMBDA decoded :
       IF isFile /\ decoded.threw THEN same(TRUE)
       ELSE With(validateWorkspacePath(IF isFile THEN decoded.v ELSE rootUri.v),
                 LAMBDA validatedPath :
         IF ~Truthy(validatedPath) THEN same(FALSE)
         ELSE With(detectTailwindV4Entrypoint(detected, validatedPath,
                                              env.ENTRYPOINT, env.grep), LAMBDA d :
           [threw |-> FALSE, workspaceRoot |-> validatedPath,
            detectedCssEntrypoint |-> d.detectedCssEntrypoint, searched |-> d.searched])))

\* obj.key = val for the value obj of a `x || {}` expression: a property of
\* an object is set; the write to a property of a number, a string or true
\* throws a TypeError in strict mode; an array takes the property, which
\* JSON.stringify then leaves out (it writes the elements only)
CanAssign(obj) ==
  CASE obj.t \in {"object", "array"} -> TRUE
    [] obj.t \in {"number", "string", "boolean"} -> FALSE
Assign(obj, lit, val) ==
  IF obj.t = "array" THEN obj ELSE JObj(Put(obj.v, Utf8(lit), val))

Dyn == [k |-> Utf8("dynamicRegistration"), v |-> JBool(TRUE)]
Strs(lits) == JArr([n \in 1..Len(lits) |-> JStr(lits[n])])

\* lines 715-724
patchWorkspace(workspace) ==
  LET w1 == Assign(workspace, "didChangeConfiguration",
                   SpreadWith(F(workspace, "didChangeConfiguration"), <<Dyn>>))
      w2 == Assign(w1, "configuration", JBool(TRUE))
      w3 == Assign(w2, "workspaceFolders", JBool(TRUE))
  IN Assign(w3, "didChangeWatchedFiles",
            SpreadWith(F(workspace, "didChangeWatchedFiles"), <<Dyn>>))

codeActionKinds ==
  Strs(<<Utf8(""), Utf8("quickfix"), Utf8("quickfix.extractVariable"),
         Utf8("quickfix.extractFunction"), Utf8("refactor"), Utf8("refactor.extract"),
         Utf8("refactor.inline"), Utf8("refactor.rewrite"), Utf8("source"),
         Utf8("source.organizeImports"), Utf8("source.fixAll"), Utf8("source.sortImports")>>)

\* lines 727-796
patchTextDocument(textDocument) ==
  LET formats == Strs(<<Utf8("markdown"), Utf8("plaintext")>>)
      t1 == Assign(textDocument, "completion",
              SpreadWith(F(textDocument, "completion"),
                <<Dyn,
                  P("completionItem",
                    SpreadWith(OF(F(textDocument, "completion"), "completionItem"),
                      <<P("snippetSupport", JBool(TRUE)), P("documentationFormat", formats)>>))>>))
      t2 == Assign(t1, "hover",
              SpreadWith(F(textDocument, "hover"), <<Dyn, P("contentFormat", formats)>>))
      t3 == Assign(t2, "colorProvider", SpreadWith(F(textDocument, "colorProvider"), <<Dyn>>))
      t4 == Assign(t3, "codeAction",
              SpreadWith(F(textDocument, "codeAction"),
                <<Dyn,
                  P("codeActionLiteralSupport",
                    JObj(<<P("codeActionKind", JObj(<<P("valueSet", codeActionKinds)>>))>>)),
                  P("resolveSupport",
                    JObj(<<P("properties",
                             Strs(<<Utf8("edit"), Utf8("command"), Utf8("documentation"),
                                    Utf8("detail")>>))>>)),
                  P("dataSupport", JBool(TRUE)),
                  P("isPreferredSupport", JBool(TRUE)),
                  P("disabledSupport", JBool(TRUE)),
                  P("honorsChangeAnnotations", JBool(TRUE))>>))
      t5 == Assign(t4, "diagnostic", SpreadWith(F(textDocument, "diagnostic"), <<Dyn>>))
      t6 == Assign(t5, "formatting", SpreadWith(F(textDocument, "formatting"), <<Dyn>>))
      t7 == Assign(t6, "rangeFormatting", SpreadWith(F(textDocument, "rangeFormatting"), <<Dyn>>))
  IN Assign(t7, "rename",
            SpreadWith(F(textDocument, "rename"),
              <<Dyn, P("prepareSupport", JBool(TRUE)),
                P("prepareSupportDefaultBehavior", JNum(1)),
                P("honorsChangeAnnotations", JBool(FALSE))>>))

\* lines 709-805
patchCapabilities(msg) ==
  LET params == OrElse(F(msg, "params"), JObj(<<>>))
      capabilities == OrElse(F(params, "capabilities"), JObj(<<>>))
      workspace == OrElse(F(capabilities, "workspace"), JObj(<<>>))
      textDocument == OrElse(F(capabilities, "textDocument"), JObj(<<>>))
      \* capabilities.window = {...} (line 710) and the spread of line 801:
      \* window is an own property the spread copies, in place when
      \* capabilities had one, else after the properties it had
      caps2 == SpreadWith(capabilities,
                 <<P("window", SpreadWith(F(capabilities, "window"),
                                          <<P("workDoneProgress", JBool(TRUE))>>)),
                   P("workspace", patchWorkspace(workspace)),
                   P("textDocument", patchTextDocument(textDocument))>>)
  IN IF ~(CanAssign(workspace) /\ CanAssign(textDocument) /\ CanAssign(capabilities)
          /\ CanAssign(params))
       THEN [threw |-> TRUE, patched |-> msg]
       ELSE [threw |-> FALSE,
             patched |-> SpreadWith(msg, <<P("params", Assign(params, "capabilities", caps2))>>)]

patchInitializeRequest(msg, workspaceRoot, detected, env) ==
  LET same == [threw |-> FALSE, patched |-> msg, workspaceRoot |-> workspaceRoot,
               detectedCssEntrypoint |-> detected, searched |-> FALSE]
      captured(rootUri) ==
        IF Truthy(rootUri) THEN captureRoot(rootUri, workspaceRoot, detected, env)
        ELSE [threw |-> FALSE, workspaceRoot |-> workspaceRoot,
              detectedCssEntrypoint |-> detected, searched |-> FALSE]
  IN IF IsNullish(msg) THEN [same EXCEPT !.threw = TRUE]
     ELSE IF F(msg, "method") # S("initialize") THEN same
     ELSE With(captured(OrElse(OF(F(msg, "params"), "rootUri"),
                               OF(F(msg, "params"), "rootPath"))), LAMBDA c :
       With(patchCapabilities(msg), LAMBDA p :
         [threw |-> c.threw \/ p.threw,
          patched |-> IF c.threw \/ p.threw THEN msg ELSE p.patched,
          workspaceRoot |-> c.workspaceRoot,
          detectedCssEntrypoint |-> c.detectedCssEntrypoint,
          searched |-> c.searched]))

(***************************************************************************)
(* The request and response logging of main().  log() returns at once when *)
(* DEBUG is off, but its argument is evaluated before the call: what is    *)
(* modelled is whether that evaluation throws, and the pendingRequests     *)
(* bookkeeping (the timestamp of an entry is only ever logged and is left  *)
(* out).                                                                   *)
(***************************************************************************)
\* `range.start.line ... range.end.line` under if (range)
rangeThrows(range) ==
  Truthy(range) /\ (IsNullish(F(range, "start")) \/ IsNullish(F(range, "end")))

\* context?.only?.join(", "): join exists on arrays only
onlyThrows(context) ==
  LET only == OF(context, "only") IN ~IsNullish(only) /\ ~IsArray(only)

logRangeFormattingRequestThrows(msg) == rangeThrows(OF(F(msg, "params"), "range"))

logCodeActionRequestThrows(msg) ==
  \/ onlyThrows(OF(F(msg, "params"), "context"))
  \/ rangeThrows(OF(F(msg, "params"), "range"))

\* the switch of the stdin handler (lines 864-889): does the logging throw
requestLoggingThrows(msg) ==
  CASE F(msg, "method") = S("textDocument/rangeFormatting") -> logRangeFormattingRequestThrows(msg)
    [] F(msg, "method") = S("textDocument/codeAction") -> logCodeActionRequestThrows(msg)
    [] OTHER -> FALSE

uriOf(msg) == OrElse(OF(OF(F(msg, "params"), "textDocument"), "uri"), S("(unknown)"))

\* the pendingRequests.set calls of the request loggers
trackRequest(msg, pendingRequests) ==
  LET track(method, context) ==
        IF F(msg, "id").t = "undefined" THEN pendingRequests
        ELSE MapSet(pendingRequests, F(msg, "id"), [method |-> method, context |-> context])
  IN CASE F(msg, "method") = S("textDocument/completion") ->
            track("textDocument/completion", uriOf(msg))
       [] F(msg, "method") = S("completionItem/resolve") ->
            track("completionItem/resolve", OrElse(OF(F(msg, "params"), "label"), S("(unknown)")))
       [] F(msg, "method") = S("textDocument/codeAction") ->
            track("textDocument/codeAction", uriOf(msg))
       [] F(msg, "method") = S("codeAction/resolve") ->
            track("codeAction/resolve", OrElse(OF(F(msg, "params"), "title"), S("(unknown)")))
       [] OTHER -> pendingRequests

\* x.slice(0, 5).map(i => i.label): a null or undefined element throws
firstNullish(elems, n) ==
  \E k \in 1..(IF Len(elems) < n THEN Len(elems) ELSE n) : IsNullish(elems[k])

logCompletionResponseThrows(msg, pending) ==
  LET result == F(msg, "result")
      items == OF(result, "items")
  IN IF Truthy(F(msg, "error")) \/ pending.method # "textDocument/completion" THEN FALSE
     ELSE IF IsArray(result) THEN firstNullish(result.v, 5)
     ELSE IF result.t # "object" THEN FALSE
     ELSE CASE IsArray(items) -> firstNullish(items.v, 5)
            [] IsString(items) -> items.v # <<>>
            [] items.t = "object" ->
                 F(items, "length").t = "number" /\ F(items, "length").v > 0
            [] OTHER -> FALSE

logCodeActionResponseThrows(msg, pending) ==
  LET result == F(msg, "result")
  IN IF Truthy(F(msg, "error")) \/ pending.method = "codeAction/resolve" THEN FALSE
     ELSE IsArray(result) /\ firstNullish(result.v, Len(result.v))

\* lines 945-968: the response logging; the result says whether it throws
\* and gives pendingRequests after it
logResponse(msg, pendingRequests) ==
  LET id == F(msg, "id")
      pending == MapGet(pendingRequests, id)
      isResponse == (F(msg, "result").t # "undefined" \/ F(msg, "error").t # "undefined")
                    /\ id.t # "undefined"
      throws ==
        IF pending.method \in {"textDocument/completion", "completionItem/resolve"}
          THEN logCompletionResponseThrows(msg, pending)
          ELSE logCodeActionResponseThrows(msg, pending)
  IN IF ~isResponse \/ ~MapHas(pendingRequests, id)
       THEN [threw |-> FALSE, pendingRequests |-> pendingRequests]
     ELSE IF throws THEN [threw |-> TRUE, pendingRequests |-> pendingRequests]
     ELSE [threw |-> FALSE, pendingRequests |-> MapDelete(pendingRequests, id)]

(***************************************************************************)
(* The body of the two for loops of main().  s is the session: the module  *)
(* level state of index.ts, the writes made so far on serverProcess.stdin  *)
(* (toServer) and on process.stdout (toHost), and threw, set when an       *)
(* exception leaves the handler.  env is the environment of the call.      *)
(***************************************************************************)
\* One write on a stream: the frame written, whether the frame is a forwarded
\* message or a synthesized response, and the position, in the sequence of
\* the messages decoded from the peer it stems from, of the message on whose
\* account it is written (kind and of are bookkeeping; bytes is the chunk).
\* the body is written without its header
WriteUnframed(kind, of, msg) == [kind |-> kind, of |-> of, bytes |-> JSONstringify(msg)]
Write(kind, of, msg) == [kind |-> kind, of |-> of, bytes |-> encodeMessage(msg)]

\* stream.write(chunk): the chunks of a stream leave in the order of the calls
writeFirst(stream, chunk) == <<chunk>> \o stream
write(stream, chunk) == Append(stream, chunk)

\* lines 857-893
clientMessage(msg, of, s, env) ==
  With(patchInitializeRequest(msg, s.workspaceRoot, s.detectedCssEntrypoint, env), LAMBDA p :
    With([s EXCEPT !.workspaceRoot = p.workspaceRoot,
                   !.detectedCssEntrypoint = p.detectedCssEntrypoint,
                   !.searches = @ + (IF p.searched THEN 1 ELSE 0)], LAMBDA s1 :
      IF p.threw \/ requestLoggingThrows(msg) THEN [s1 EXCEPT !.threw = TRUE]
      ELSE [s1 EXCEPT !.pendingRequests = trackRequest(msg, @),
                      !.toServer = write(@, Write("forward", of, p.patched))]))

InterceptedMethods ==
  {S("client/registerCapability"), S("client/unregisterCapability"),
   S("workspace/configuration"), S("window/workDoneProgress/create")}

\* msg.method && msg.id !== undefined, and the switch has a case for it
isInterceptedRequestNoConfiguration(msg) ==
  /\ Truthy(F(msg, "method"))
  /\ F(msg, "id").t # "undefined"
  /\ F(msg, "method") \in InterceptedMethods \ {S("workspace/configuration")}
isInterceptedRequest(msg) ==
  /\ Truthy(F(msg, "method"))
  /\ F(msg, "id").t # "undefined"
  /\ F(msg, "method") \in InterceptedMethods

AbsorbedMethods == {S("$/progress"), S("window/logMessage")}

\* msg.method && msg.id === undefined, and the switch has a case for it
isAbsorbedNotificationNoLogMessage(msg) ==
  /\ Truthy(F(msg, "method"))
  /\ F(msg, "id").t = "undefined"
  /\ F(msg, "method") = S("$/progress")
isAbsorbedNotification(msg) ==
  /\ Truthy(F(msg, "method"))
  /\ F(msg, "id").t = "undefined"
  /\ F(msg, "method") \in AbsorbedMethods

\* the arguments of the two log calls at lines 936 and 939
absorbLoggingThrows(msg) ==
  LET message == OF(F(msg, "params"), "message")
  IN IF F(msg, "method") = S("$/progress")
       THEN F(msg, "params").t = "undefined"
       ELSE ~IsNullish(message) /\ ~IsString(message)

\* lines 908-921: the handler the switch selects
intercept(msg, s, env) ==
  LET method == F(msg, "method")
  IN CASE method = S("client/registerCapability") ->
            With(handleRegisterCapability(msg, s.registeredCapabilities), LAMBDA reg :
              [threw |-> reg.threw, response |-> reg.response,
               s |-> [s EXCEPT !.registeredCapabilities = reg.registeredCapabilities]])
       [] method = S("client/unregisterCapability") ->
            With(handleUnregisterCapability(msg, s.registeredCapabilities), LAMBDA unreg :
              [threw |-> unreg.threw, response |-> unreg.response,
               s |-> [s EXCEPT !.registeredCapabilities = unreg.registeredCapabilities]])
       [] method = S("workspace/configuration") ->
            With(handleWorkspaceConfiguration(msg, s.detectedCssEntrypoint,
                                              s.workspaceRoot, env), LAMBDA conf :
              [threw |-> conf.threw, response |-> conf.response,
               s |-> [s EXCEPT !.detectedCssEntrypoint = conf.detectedCssEntrypoint,
                               !.searches = @ + (IF conf.searched THEN 1 ELSE 0)]])
       [] method = S("window/workDoneProgress/create") ->
            [threw |-> FALSE, response |-> handleWorkDoneProgressCreate(msg), s |-> s]

\* lines 901-972
serverMessage(msg, of, s, env) ==
  IF IsNullish(msg) THEN [s EXCEPT !.threw = TRUE]
  ELSE IF isInterceptedRequest(msg)
    THEN With(intercept(msg, s, env), LAMBDA i :
      IF i.threw THEN [i.s EXCEPT !.threw = TRUE]
      ELSE [i.s EXCEPT !.toServer = write(@, Write("respond", of, i.response))])
  ELSE IF isAbsorbedNotification(msg)
    THEN IF absorbLoggingThrows(msg) THEN [s EXCEPT !.threw = TRUE] ELSE s
  ELSE With(logResponse(msg, s.pendingRequests), LAMBDA l :
    IF l.threw THEN [s EXCEPT !.threw = TRUE]
    ELSE [s EXCEPT !.pendingRequests = l.pendingRequests,
                   !.toHost = write(@, Write("forward", of, msg))])

\* for (const msg of messages): an exception ends the loop
\* (before messages[1], `before` messages had been decoded from this peer)
RECURSIVE clientLoop(_, _, _, _, _)
clientLoop(messages, i, before, s, env) ==
  IF i > Len(messages) \/ s.threw THEN s
  ELSE clientLoop(messages, i + 1, before,
                  clientMessage(messages[i], before + i, s, env), env)

RECURSIVE serverLoop(_, _, _, _, _)
serverLoop(messages, i, before, s, env) ==
  IF i > Len(messages) \/ s.threw THEN s
  ELSE serverLoop(messages, i + 1, before,
                  serverMessage(messages[i], before + i, s, env), env)

(***************************************************************************)
(* The codec on its own: one MessageBuffer is fed a byte sequence made of  *)
(* segments (encoded frames, header blocks without a Content-Length, and   *)
(* frames whose body is not JSON), either whole or cut into chunks.        *)
(***************************************************************************)
MaxSegments == 2
MaxChunk == 3

VARIABLES cSegs, cIn, cFed, cMode, cBuf, cOut

(***************************************************************************)
(* The adapter between its two peers.                                      *)
(*   ENTRYPOINT             process.env.TAILWIND_CSS_ENTRYPOINT             *)
(*   workspaceRoot, detectedCssEntrypoint, registeredCapabilities,          *)
(*   pendingRequests        the module level variables of index.ts          *)
(*   clientBuffer, serverBuffer   the two MessageBuffers of main()          *)
(*   hostPipe, serverPipe   bytes a peer has written that no data event has *)
(*                          delivered yet                                   *)
(*   toServer, toHost       the writes made on serverProcess.stdin and on   *)
(*                          process.stdout, in order                        *)
(*   fromHost, fromServer   the messages decoded so far from each peer      *)
(*   searches               how many times grep was run                     *)
(*   uncaught               an exception has left a handler: no handler of  *)
(*                          uncaughtException is installed, the process     *)
(*                          ends                                            *)
(*   sent                   the number of frames the peers have written     *)
(***************************************************************************)
VARIABLES ENTRYPOINT, workspaceRoot, detectedCssEntrypoint, registeredCapabilities,
          pendingRequests, clientBuffer, serverBuffer, hostPipe, serverPipe,
          toServer, toHost, fromHost, fromServer, searches, uncaught, sent

codecVars == <<cSegs, cIn, cFed, cMode, cBuf, cOut>>
engineVars ==
  <<ENTRYPOINT, workspaceRoot, detectedCssEntrypoint, registeredCapabilities,
    pendingRequests, clientBuffer, serverBuffer, hostPipe, serverPipe,
    toServer, toHost, fromHost, fromServer, searches, uncaught, sent>>

(***************************************************************************)
(* One call of a function of index.ts on its own: uArg is the argument,    *)
(* uRet is <<>> before the call and <<r>> once it has returned r.          *)
(***************************************************************************)
VARIABLES uArg, uRet
unitVars == <<uArg, uRet>>

NoCall == uArg = <<>> /\ uRet = <<>>

(***************************************************************************)
(* The two processes.                                                      *)
(*   TAILWIND_LSP_COMMAND  process.env.TAILWIND_LSP_COMMAND ("" when unset) *)
(*   adapter     this process: loading (module level code and main() have  *)
(*               not run yet), proxying, or exited with a code by a call   *)
(*               site of process.exit                                      *)
(*   server      serverProcess: unspawned, failed (spawn could not start   *)
(*               it), running or exited with a code or by a signal; onTerm *)
(*               is what the program does with SIGTERM                     *)
(*   kills       the serverProcess.kill calls made, with the time of each  *)
(*   delivered   how many of them have reached the server                  *)
(*   timer       the setTimeout of the stdin end handler                   *)
(*   now         the time in ms since the start                            *)
(*   stdinOpen   process.stdin has not ended                               *)
(*   received    the termination signals this process has received         *)
(***************************************************************************)
VARIABLES TAILWIND_LSP_COMMAND, adapter, server, kills, delivered, timer, now, stdinOpen,
          received
lifeVars ==
  <<TAILWIND_LSP_COMMAND, adapter, server, kills, delivered, timer, now, stdinOpen, received>>

NoTimer == [armed |-> FALSE, due |-> 0]

\* main() has run: the server is spawned and the handlers are registered
Proxying ==
  /\ TAILWIND_LSP_COMMAND = <<>>
  /\ adapter = [state |-> "proxying", code |-> <<>>, by |-> "none"]
  /\ server = [state |-> "running", onTerm |-> "default", code |-> <<>>, signal |-> "none"]
  /\ kills = <<>>
  /\ delivered = 0
  /\ timer = NoTimer
  /\ now = 0
  /\ stdinOpen = TRUE
  /\ received = {}

vars == <<codecVars, engineVars, unitVars, lifeVars>>

\* the state main() starts from (lines 96, 99, 264, 272, 849, 850)
Started ==
  /\ workspaceRoot = JNull
  /\ detectedCssEntrypoint = Undefined
  /\ registeredCapabilities = <<>>
  /\ pendingRequests = <<>>
  /\ clientBuffer = NewMessageBuffer
  /\ serverBuffer = NewMessageBuffer
  /\ hostPipe = <<>>
  /\ serverPipe = <<>>
  /\ toServer = <<>>
  /\ toHost = <<>>
  /\ fromHost = <<>>
  /\ fromServer = <<>>
  /\ searches = 0
  /\ uncaught = FALSE
  /\ sent = 0

CodecMessages ==
  { JObj(<<P("jsonrpc", S("2.0")), P("id", JNum(1)), P("method", S("test"))>>),
    JObj(<<P("id", JNum(10)), P("result", JArr(<<JStr(<<195, 169, 34, 92>>), JNull, JBool(TRUE), JNum(0 - 5)>>))>>),
    JObj(<<P("method", JStr(<<36, 47, 195, 169>>)), P("params", JObj(<<>>))>>) }

Frame(m) == [kind |-> "frame", msg |-> m, bytes |-> encodeMessage(m)]
BadHeader(b) == [kind |-> "badHeader", msg |-> JNull, bytes |-> b \o CRLFCRLF]
BadBody(b) ==
  [kind |-> "badBody", msg |-> JNull,
   bytes |-> Utf8("Content-Length: ") \o NumberToString(Len(b)) \o CRLFCRLF \o b]

\* a frame cut short: the header declares missing bytes more than the body b has
Truncated(b, missing) ==
  [kind |-> "truncated", msg |-> JNull,
   bytes |-> Utf8("Content-Length: ") \o NumberToString(Len(b) + missing) \o CRLFCRLF \o b]

Segments ==
  { Frame(m) : m \in CodecMessages }
    \cup { BadHeader(Utf8("Invalid-Header: foo")), BadHeader(Utf8("Content-Length: x")),
           BadHeader(<<>>) }
    \cup { BadBody(Utf8("{\"id\":")) }
    \cup { Truncated(Utf8("{\"id\":"), 3) }

\* further messages, each fed as the only frame of an input
RoundTripMessages ==
  { JNull, JBool(FALSE), JNum(0), JNum(0 - 32601), S(""), JArr(<<>>), JObj(<<>>),
    JStr(<<226, 130, 172, 195, 169, 47>>),
    JObj(<<P("jsonrpc", S("2.0")), P("id", S("a\"b")), P("result", JNull)>>),
    JObj(<<P("jsonrpc", S("2.0")), P("id", JNum(0)),
           P("error", JObj(<<P("code", JNum(0 - 32601)), P("message", JStr(<<226, 130, 172>>))>>))>>),
    JObj(<<P("jsonrpc", S("2.0")), P("method", S("initialize")),
           P("params", JObj(<<P("capabilities", JObj(<<P("workspace", JObj(<<>>))>>)),
                              P("items", JArr(<<JObj(<<P("section", S("editor"))>>), JArr(<<JNum(7)>>)>>))>>))>>) }

SeqsUpTo(S_, n) == UNION { [1..k -> S_] : k \in 0..n }

RECURSIVE Flatten(_)
Flatten(segs) == IF segs = <<>> THEN <<>> ELSE Head(segs).bytes \o Flatten(Tail(segs))

CodecInit ==
  /\ cSegs \in SeqsUpTo(Segments, MaxSegments) \cup { <<Frame(m)>> : m \in RoundTripMessages }
  /\ cIn = Flatten(cSegs)
  /\ cFed = 0
  /\ cMode = "idle"
  /\ cBuf = NewMessageBuffer
  /\ cOut = <<>>
  /\ ENTRYPOINT = <<>>
  /\ Started
  /\ NoCall
  /\ Proxying

\* one feed(data) call on the decoder with the next n bytes of the input
FeedCall(n) ==
  LET r == feed(cBuf, SubSeq(cIn, cFed + 1, cFed + n))
  IN /\ cBuf' = [buffer |-> r.buffer, contentLength |-> r.contentLength]
     /\ cOut' = cOut \o r.messages
     /\ cFed' = cFed + n
     /\ UNCHANGED <<cSegs, cIn>>
     /\ UNCHANGED <<engineVars, unitVars, lifeVars>>

FeedWhole ==
  /\ cFed = 0
  /\ cIn # <<>>
  /\ FeedCall(Len(cIn))
  /\ cMode' = "whole"

FeedChunk ==
  \E n \in 1..MaxChunk :
    /\ cFed + n <= Len(cIn)
    /\ n < Len(cIn)
    /\ FeedCall(n)
    /\ cMode' = "chunked"

FeedRest ==
  /\ cFed > 0
  /\ cFed < Len(cIn)
  /\ FeedCall(Len(cIn) - cFed)
  /\ cMode' = "chunked"

CodecNext == FeedWhole \/ FeedChunk \/ FeedRest

CodecSpec == CodecInit /\ [][CodecNext]_vars

(***************************************************************************)
(* The session.  The host and the server write frames; a data event hands  *)
(* the handler the bytes pending on a pipe, all of them or the first       *)
(* ChunkBytes of them, so that a handler sees frames whole, cut or several *)
(* at once.                                                                *)
(***************************************************************************)
MaxFrames == 2
ChunkBytes == 64

Request(id, method, params) ==
  JObj(<<P("jsonrpc", S("2.0")), P("id", id), P("method", method), P("params", params)>>)
Notification(method, params) ==
  JObj(<<P("jsonrpc", S("2.0")), P("method", method), P("params", params)>>)
Result(id, result) == JObj(<<P("jsonrpc", S("2.0")), P("id", id), P("result", result)>>)

\* what the host writes
HostMessages ==
  { Request(JNum(0), S("initialize"),
            JObj(<<P("rootUri", S("file:///w")), P("capabilities", JObj(<<>>))>>)),
    Request(JNum(1), S("textDocument/completion"),
            JObj(<<P("textDocument", JObj(<<P("uri", S("file:///w/a.css"))>>))>>)),
    Request(JNum(2), S("textDocument/rangeFormatting"), JObj(<<P("range", JObj(<<>>))>>)),
    Notification(S("initialized"), JObj(<<>>)) }

\* what the server writes
ServerMessages ==
  { Request(JNum(0), S("client/registerCapability"),
            JObj(<<P("registrations",
                     JArr(<<JObj(<<P("id", S("r1")),
                                   P("method", S("workspace/didChangeConfiguration"))>>)>>))>>)),
    Request(S("a"), S("client/registerCapability"),
            JObj(<<P("registrations", JArr(<<JNull>>))>>)),
    Request(JNum(3), S("client/unregisterCapability"),
            JObj(<<P("unregisterations", JArr(<<JObj(<<P("id", S("r1"))>>)>>))>>)),
    Request(JNum(4), S("workspace/configuration"),
            JObj(<<P("items", JArr(<<JObj(<<P("section", S("tailwindCSS"))>>),
                                     JObj(<<P("section", S("editor"))>>),
                                     JObj(<<P("section", S("css"))>>),
                                     JObj(<<>>)>>))>>)),
    Request(S("t"), S("window/workDoneProgress/create"), JObj(<<P("token", JNum(7))>>)),
    Notification(S("$/progress"), JObj(<<P("token", JNum(7))>>)),
    Notification(S("window/logMessage"), JObj(<<P("type", JNum(3)), P("message", S("ready"))>>)),
    Notification(S("client/registerCapability"), JObj(<<>>)),
    Result(JNum(1), JArr(<<JObj(<<P("label", S("flex"))>>)>>)) }

\* what grep can do when it is run on the workspace root
GrepOutcomes ==
  { [err |-> TRUE, lines |-> <<>>],
    [err |-> FALSE, lines |-> <<Utf8("/w/a.css")>>],
    [err |-> FALSE, lines |-> <<Utf8("/w/a.css"), Utf8("/w/src/app.css")>>] }

Init ==
  /\ cSegs = <<>>
  /\ cIn = <<>>
  /\ cFed = 0
  /\ cMode = "idle"
  /\ cBuf = NewMessageBuffer
  /\ cOut = <<>>
  /\ ENTRYPOINT \in {<<>>, Utf8("src/main.css")}
  /\ Started
  /\ NoCall
  /\ Proxying

\* the session a handler starts in, and the state it leaves
Session ==
  [workspaceRoot |-> workspaceRoot, detectedCssEntrypoint |-> detectedCssEntrypoint,
   registeredCapabilities |-> registeredCapabilities, pendingRequests |-> pendingRequests,
   toServer |-> toServer, toHost |-> toHost, searches |-> searches, threw |-> FALSE]

Leave(s) ==
  /\ workspaceRoot' = s.workspaceRoot
  /\ detectedCssEntrypoint' = s.detectedCssEntrypoint
  /\ registeredCapabilities' = s.registeredCapabilities
  /\ pendingRequests' = s.pendingRequests
  /\ toServer' = s.toServer
  /\ toHost' = s.toHost
  /\ searches' = s.searches
  /\ uncaught' = s.threw

Env(grep) == [ENTRYPOINT |-> ENTRYPOINT, grep |-> grep]

\* the sizes of the chunk a data event can deliver from a pipe
ChunkSizes(pipe) == {Len(pipe)} \cup {n \in {ChunkBytes} : n < Len(pipe)}

\* the host writes a frame on the adapter's stdin
HostSend ==
  /\ ~uncaught
  /\ sent < MaxFrames
  /\ \E m \in HostMessages : hostPipe' = hostPipe \o encodeMessage(m)
  /\ sent' = sent + 1
  /\ UNCHANGED <<ENTRYPOINT, workspaceRoot, detectedCssEntrypoint, registeredCapabilities,
                 pendingRequests, clientBuffer, serverBuffer, serverPipe, toServer, toHost,
                 fromHost, fromServer, searches, uncaught>>
  /\ UNCHANGED <<codecVars, unitVars, lifeVars>>

\* the server writes a frame on its stdout
ServerSend ==
  /\ ~uncaught
  /\ sent < MaxFrames
  /\ \E m \in ServerMessages : serverPipe' = serverPipe \o encodeMessage(m)
  /\ sent' = sent + 1
  /\ UNCHANGED <<ENTRYPOINT, workspaceRoot, detectedCssEntrypoint, registeredCapabilities,
                 pendingRequests, clientBuffer, serverBuffer, hostPipe, toServer, toHost,
                 fromHost, fromServer, searches, uncaught>>
  /\ UNCHANGED <<codecVars, unitVars, lifeVars>>

\* the handler of process.stdin.on("data", ...), lines 855-894, run on a chunk:
\* the decoder after feed, the messages feed returns, the session the loop
\* over them leaves
stdinHandler(chunk, grep) ==
  With(feed(clientBuffer, chunk), LAMBDA r :
    [decoder |-> [buffer |-> r.buffer, contentLength |-> r.contentLength],
     messages |-> r.messages,
     session |-> clientLoop(r.messages, 1, Len(fromHost), Session, Env(grep))])

AfterStdinHandler(h) ==
  /\ clientBuffer' = h.decoder
  /\ fromHost' = fromHost \o h.messages
  /\ Leave(h.session)

\* a data event delivers the first n bytes of the pipe; grep has any of its
\* outcomes if the handler runs it
StdinData ==
  /\ ~uncaught
  /\ hostPipe # <<>>
  /\ \E n \in ChunkSizes(hostPipe) :
       /\ hostPipe' = SubSeq(hostPipe, n + 1, Len(hostPipe))
       /\ \E grep \in GrepOutcomes :
            AfterStdinHandler(stdinHandler(SubSeq(hostPipe, 1, n), grep))
  /\ UNCHANGED <<ENTRYPOINT, serverBuffer, serverPipe, fromServer, sent>>
  /\ UNCHANGED <<codecVars, unitVars, lifeVars>>

\* the handler of serverProcess.stdout.on("data", ...), lines 899-973
stdoutHandler(chunk, grep) ==
  With(feed(serverBuffer, chunk), LAMBDA r :
    [decoder |-> [buffer |-> r.buffer, contentLength |-> r.contentLength],
     messages |-> r.messages,
     session |-> serverLoop(r.messages, 1, Len(fromServer), Session, Env(grep))])

AfterStdoutHandler(h) ==
  /\ serverBuffer' = h.decoder
  /\ fromServer' = fromServer \o h.messages
  /\ Leave(h.session)

ServerStdoutData ==
  /\ ~uncaught
  /\ serverPipe # <<>>
  /\ \E n \in ChunkSizes(serverPipe) :
       /\ serverPipe' = SubSeq(serverPipe, n + 1, Len(serverPipe))
       /\ \E grep \in GrepOutcomes :
            AfterStdoutHandler(stdoutHandler(SubSeq(serverPipe, 1, n), grep))
  /\ UNCHANGED <<ENTRYPOINT, clientBuffer, hostPipe, fromHost, sent>>
  /\ UNCHANGED <<codecVars, unitVars, lifeVars>>

Next == HostSend \/ ServerSend \/ StdinData \/ ServerStdoutData

Spec == Init /\ [][Next]_vars

(***************************************************************************)
(* The handshake.  The host writes initialize requests (a session has one, *)
(* nothing in index.ts counts them), the server asks for the configuration; *)
(* a peer writes its next frame once the frames written before have been   *)
(* handled.                                                                *)
(***************************************************************************)
MaxHandshakes == 2

\* capabilities that declare fields the rewrite does not set, at each level,
\* and dynamicRegistration false
DeclaredCapabilities ==
  JObj(<<P("textDocument",
           JObj(<<P("completion", JObj(<<P("dynamicRegistration", JBool(FALSE)),
                                         P("labelDetails", JBool(TRUE))>>)),
                  P("semanticTokens", JNum(5))>>)),
         P("workspace", JObj(<<P("applyEdit", JBool(TRUE))>>)),
         P("experimental", S("x"))>>)

\* the initialize requests of the host: a root that is accepted (two of
\* them), none, one that is rejected, one that is no URI encoding;
\* capabilities declared, empty, absent, and of a type that is not an object
InitializeRequests ==
  { Request(JNum(0), S("initialize"),
            JObj(<<P("capabilities", DeclaredCapabilities), P("rootUri", S("file:///w")),
                   P("processId", JNum(7))>>)),
    Request(JNum(1), S("initialize"), JObj(<<P("rootUri", S("file:///w/src"))>>)),
    Request(JNum(2), S("initialize"), JObj(<<P("capabilities", JObj(<<>>))>>)),
    Request(JNum(3), S("initialize"),
            JObj(<<P("rootPath", S("/w/../etc/ssl")), P("capabilities", JObj(<<>>))>>)),
    Request(JNum(4), S("initialize"),
            JObj(<<P("capabilities", JObj(<<P("workspace", JArr(<<>>))>>))>>)),
    Request(JNum(5), S("initialize"), JObj(<<P("rootUri", S("file:///w%zz"))>>)) }

ConfigurationQuery ==
  Request(JNum(9), S("workspace/configuration"),
          JObj(<<P("items", JArr(<<JObj(<<P("section", S("tailwindCSS"))>>)>>))>>))

HostInitialize ==
  /\ ~uncaught
  /\ sent < MaxHandshakes
  /\ hostPipe = <<>> /\ serverPipe = <<>>
  /\ \E m \in InitializeRequests : hostPipe' = encodeMessage(m)
  /\ sent' = sent + 1
  /\ UNCHANGED <<ENTRYPOINT, workspaceRoot, detectedCssEntrypoint, registeredCapabilities,
                 pendingRequests, clientBuffer, serverBuffer, serverPipe, toServer, toHost,
                 fromHost, fromServer, searches, uncaught>>
  /\ UNCHANGED <<codecVars, unitVars, lifeVars>>

ServerQuery ==
  /\ ~uncaught
  /\ sent < MaxHandshakes
  /\ hostPipe = <<>> /\ serverPipe = <<>>
  /\ serverPipe' = encodeMessage(ConfigurationQuery)
  /\ sent' = sent + 1
  /\ UNCHANGED <<ENTRYPOINT, workspaceRoot, detectedCssEntrypoint, registeredCapabilities,
                 pendingRequests, clientBuffer, serverBuffer, hostPipe, toServer, toHost,
                 fromHost, fromServer, searches, uncaught>>
  /\ UNCHANGED <<codecVars, unitVars, lifeVars>>

HandshakeNext == HostInitialize \/ ServerQuery \/ StdinData \/ ServerStdoutData

HandshakeSpec == Init /\ [][HandshakeNext]_vars

(***************************************************************************)
(* The host's stream with frames whose body is not JSON.  cSegs is what    *)
(* the host writes in the session, cIn its bytes, cFed how many of them    *)
(* it has written so far; the host writes a segment at a time, and the     *)
(* data events deliver the bytes as in the session above.                  *)
(***************************************************************************)
MaxHostSegments == 3

HostSegments ==
  { Frame(Notification(S("initialized"), JObj(<<>>))),
    Frame(Request(JNum(1), S("textDocument/hover"), JObj(<<>>))),
    BadBody(Utf8("{\"id\":")),
    BadHeader(Utf8("Content-Type: x")) }

RECURSIVE PrefixLen(_, _)
PrefixLen(segs, n) == IF n = 0 THEN 0 ELSE PrefixLen(segs, n - 1) + Len(segs[n].bytes)

FramingInit ==
  /\ cSegs \in SeqsUpTo(HostSegments, MaxHostSegments)
  /\ cIn = Flatten(cSegs)
  /\ cFed = 0
  /\ cMode = "idle"
  /\ cBuf = NewMessageBuffer
  /\ cOut = <<>>
  /\ ENTRYPOINT = <<>>
  /\ Started
  /\ NoCall
  /\ Proxying

\* the host writes the next segment on the adapter's stdin
HostWrite ==
  /\ ~uncaught
  /\ \E n \in 1..Len(cSegs) :
       /\ PrefixLen(cSegs, n - 1) = cFed
       /\ hostPipe' = hostPipe \o cSegs[n].bytes
       /\ cFed' = cFed + Len(cSegs[n].bytes)
  /\ sent' = sent + 1
  /\ UNCHANGED <<cSegs, cIn, cMode, cBuf, cOut>>
  /\ UNCHANGED <<ENTRYPOINT, workspaceRoot, detectedCssEntrypoint, registeredCapabilities,
                 pendingRequests, clientBuffer, serverBuffer, serverPipe, toServer, toHost,
                 fromHost, fromServer, searches, uncaught>>
  /\ UNCHANGED <<unitVars, lifeVars>>

\* the server writes a progress notification on its stdout, once
ServerNotifies ==
  /\ ~uncaught
  /\ serverPipe = <<>>
  /\ fromServer = <<>>
  /\ serverPipe' = encodeMessage(Notification(S("$/progress"),
                                              JObj(<<P("token", JNum(7)),
                                                     P("value", JObj(<<P("kind", S("report"))>>))>>)))
  /\ UNCHANGED <<ENTRYPOINT, workspaceRoot, detectedCssEntrypoint, registeredCapabilities,
                 pendingRequests, clientBuffer, serverBuffer, hostPipe, toServer, toHost,
                 fromHost, fromServer, searches, uncaught, sent>>
  /\ UNCHANGED <<codecVars, unitVars, lifeVars>>

FramingNext == HostWrite \/ StdinData \/ ServerNotifies \/ ServerStdoutData

FramingSpec == FramingInit /\ [][FramingNext]_vars

(***************************************************************************)
(* Dynamic registration: the server registers and unregisters              *)
(* capabilities while the host sends requests.                             *)
(***************************************************************************)
MaxRegistrations == 3

Registration(id, method, options) ==
  JObj(<<P("id", id), P("method", method), P("registerOptions", options)>>)

RegistrationMessages ==
  { Request(JNum(10), S("client/registerCapability"),
            JObj(<<P("registrations",
                     JArr(<<Registration(S("r1"), S("workspace/didChangeConfiguration"),
                                         JObj(<<P("section", S("tailwindCSS"))>>)),
                            JObj(<<P("id", S("r2")), P("method", S("textDocument/completion"))>>)>>))>>)),
    Request(JNum(11), S("client/registerCapability"),
            JObj(<<P("registrations",
                     JArr(<<Registration(S("r1"), S("textDocument/hover"), JNull)>>))>>)),
    Request(JNum(12), S("client/unregisterCapability"),
            JObj(<<P("unregisterations",
                     JArr(<<JObj(<<P("id", S("r1")),
                                   P("method", S("workspace/didChangeConfiguration"))>>)>>))>>)),
    Request(JNum(13), S("client/unregisterCapability"),
            JObj(<<P("unregistrations",
                     JArr(<<JObj(<<P("id", S("r2"))>>), JObj(<<P("id", S("r9"))>>)>>))>>)),
    Request(JNum(14), S("client/unregisterCapability"),
            JObj(<<P("unregistrations", JArr(<<JNull>>))>>)),
    Request(JNum(15), S("client/registerCapability"),
            JObj(<<P("registrations",
                     JArr(<<JObj(<<P("id", S("r3")), P("method", S("textDocument/hover"))>>),
                            JNull>>))>>)) }

HostRequests ==
  { Request(JNum(1), S("textDocument/hover"),
            JObj(<<P("textDocument", JObj(<<P("uri", S("file:///w/a.css"))>>))>>)) }

ServerRegistration ==
  /\ ~uncaught
  /\ sent < MaxRegistrations
  /\ hostPipe = <<>> /\ serverPipe = <<>>
  /\ \E m \in RegistrationMessages : serverPipe' = encodeMessage(m)
  /\ sent' = sent + 1
  /\ UNCHANGED <<ENTRYPOINT, workspaceRoot, detectedCssEntrypoint, registeredCapabilities,
                 pendingRequests, clientBuffer, serverBuffer, hostPipe, toServer, toHost,
                 fromHost, fromServer, searches, uncaught>>
  /\ UNCHANGED <<codecVars, unitVars, lifeVars>>

HostRequest ==
  /\ ~uncaught
  /\ sent < MaxRegistrations
  /\ hostPipe = <<>> /\ serverPipe = <<>>
  /\ \E m \in HostRequests : hostPipe' = encodeMessage(m)
  /\ sent' = sent + 1
  /\ UNCHANGED <<ENTRYPOINT, workspaceRoot, detectedCssEntrypoint, registeredCapabilities,
                 pendingRequests, clientBuffer, serverBuffer, serverPipe, toServer, toHost,
                 fromHost, fromServer, searches, uncaught>>
  /\ UNCHANGED <<codecVars, unitVars, lifeVars>>

RegistrationNext == ServerRegistration \/ HostRequest \/ StdinData \/ ServerStdoutData

RegistrationSpec == Init /\ [][RegistrationNext]_vars

(***************************************************************************)
(* What the server can send, by kind: the four intercepted methods with and *)
(* without an id, the absorbed methods with and without an id, other        *)
(* notifications, a response; before and after a handshake of the host.     *)
(***************************************************************************)
MaxClassified == 2

ClassifiedMessages ==
  { Request(JNum(20), S("client/registerCapability"), JObj(<<P("registrations", JArr(<<>>))>>)),
    JObj(<<P("jsonrpc", S("2.0")), P("id", JNum(21)), P("method", S("client/unregisterCapability"))>>),
    Request(JNum(22), S("workspace/configuration"), JObj(<<P("items", JArr(<<>>))>>)),
    Request(S("t"), S("window/workDoneProgress/create"), JObj(<<P("token", JNum(7))>>)),
    Request(JNum(23), S("client/registerCapability"),
            JObj(<<P("registrations", JArr(<<JNull>>))>>)),
    Notification(S("$/progress"), JObj(<<P("token", JNum(7))>>)),
    Notification(S("window/logMessage"), JObj(<<P("type", JNum(3)), P("message", S("ready"))>>)),
    Notification(S("window/showMessage"), JObj(<<P("type", JNum(1)), P("message", S("no config"))>>)),
    Request(JNum(24), S("$/progress"), JObj(<<P("token", JNum(7))>>)),
    Notification(S("workspace/configuration"), JObj(<<P("items", JArr(<<>>))>>)),
    Result(JNum(1), JNull) }

ServerClassified ==
  /\ ~uncaught
  /\ sent < MaxClassified
  /\ hostPipe = <<>> /\ serverPipe = <<>>
  /\ \E m \in ClassifiedMessages : serverPipe' = encodeMessage(m)
  /\ sent' = sent + 1
  /\ UNCHANGED <<ENTRYPOINT, workspaceRoot, detectedCssEntrypoint, registeredCapabilities,
                 pendingRequests, clientBuffer, serverBuffer, hostPipe, toServer, toHost,
                 fromHost, fromServer, searches, uncaught>>
  /\ UNCHANGED <<codecVars, unitVars, lifeVars>>

\* the host's handshake, at any point of the session
HostHandshake ==
  /\ ~uncaught
  /\ fromHost = <<>>
  /\ hostPipe = <<>> /\ serverPipe = <<>>
  /\ hostPipe' = encodeMessage(Request(JNum(0), S("initialize"),
                                       JObj(<<P("rootUri", S("file:///w")),
                                              P("capabilities", JObj(<<>>))>>)))
  /\ UNCHANGED <<ENTRYPOINT, workspaceRoot, detectedCssEntrypoint, registeredCapabilities,
                 pendingRequests, clientBuffer, serverBuffer, serverPipe, toServer, toHost,
                 fromHost, fromServer, searches, uncaught, sent>>
  /\ UNCHANGED <<codecVars, unitVars, lifeVars>>

ClassificationNext == ServerClassified \/ HostHandshake \/ StdinData \/ ServerStdoutData

ClassificationSpec == Init /\ [][ClassificationNext]_vars

(***************************************************************************)
(* Both peers writing at once: frames of the host and of the server wait   *)
(* on the two pipes together and the data events of the two directions     *)
(* come in any order, each with all or part of what its pipe holds.        *)
(***************************************************************************)
MaxInterleaved == 3

InterleavedHostMessages ==
  { Request(JNum(1), S("textDocument/hover"), JObj(<<>>)),
    Notification(S("initialized"), JObj(<<>>)) }

InterleavedServerMessages ==
  { Request(S("t"), S("window/workDoneProgress/create"), JObj(<<P("token", JNum(7))>>)),
    Request(JNum(4), S("workspace/configuration"),
            JObj(<<P("items", JArr(<<JObj(<<P("section", S("tailwindCSS"))>>)>>))>>)) }

HostInterleaved ==
  /\ ~uncaught
  /\ sent < MaxInterleaved
  /\ \E m \in InterleavedHostMessages : hostPipe' = hostPipe \o encodeMessage(m)
  /\ sent' = sent + 1
  /\ UNCHANGED <<ENTRYPOINT, workspaceRoot, detectedCssEntrypoint, registeredCapabilities,
                 pendingRequests, clientBuffer, serverBuffer, serverPipe, toServer, toHost,
                 fromHost, fromServer, searches, uncaught>>
  /\ UNCHANGED <<codecVars, unitVars, lifeVars>>

ServerInterleaved ==
  /\ ~uncaught
  /\ sent < MaxInterleaved
  /\ \E m \in InterleavedServerMessages : serverPipe' = serverPipe \o encodeMessage(m)
  /\ sent' = sent + 1
  /\ UNCHANGED <<ENTRYPOINT, workspaceRoot, detectedCssEntrypoint, registeredCapabilities,
                 pendingRequests, clientBuffer, serverBuffer, hostPipe, toServer, toHost,
                 fromHost, fromServer, searches, uncaught>>
  /\ UNCHANGED <<codecVars, unitVars, lifeVars>>

InterleavingNext == HostInterleaved \/ ServerInterleaved \/ StdinData \/ ServerStdoutData

InterleavingSpec == Init /\ [][InterleavingNext]_vars

(***************************************************************************)
(* validateWorkspacePath on its own: called once on a path made of up to   *)
(* MaxPathSegments segments, absolute or relative to process.cwd().        *)
(***************************************************************************)
MaxPathSegments == 3

PathSegments ==
  {Utf8("w"), Utf8("src"), Utf8("etc"), Utf8("devel"), Utf8("locked"), Utf8("a.css"),
   Utf8("nope"), Utf8("."), Utf8("..")}

RECURSIVE JoinSlash(_)
JoinSlash(segs) ==
  IF segs = <<>> THEN <<>>
  ELSE IF Len(segs) = 1 THEN segs[1]
  ELSE segs[1] \o <<47>> \o JoinSlash(Tail(segs))

Paths ==
  {prefix \o JoinSlash(segs) :
     prefix \in {<<>>, <<47>>}, segs \in SeqsUpTo(PathSegments, MaxPathSegments)}

PathInit ==
  /\ uArg \in Paths
  /\ uRet = <<>>
  /\ cSegs = <<>>
  /\ cIn = <<>>
  /\ cFed = 0
  /\ cMode = "idle"
  /\ cBuf = NewMessageBuffer
  /\ cOut = <<>>
  /\ ENTRYPOINT = <<>>
  /\ Started
  /\ Proxying

ValidateCall ==
  /\ uRet = <<>>
  /\ uRet' = <<validateWorkspacePath(uArg)>>
  /\ UNCHANGED <<uArg, codecVars, engineVars, lifeVars>>

PathSpec == PathInit /\ [][ValidateCall]_vars

(***************************************************************************)
(* The selection among the files grep prints, on its own: lines 137-162    *)
(* applied to an output of grep run on the root /w.                        *)
(***************************************************************************)
MaxMatches == 3

MatchedFiles ==
  { Utf8("/w/a.css"), Utf8("/w/src/app.css"), Utf8("/w/main.css"),
    Utf8("/w/node_modules/x/index.css"), Utf8("/w/lib/global.css"), Utf8("/w/src/index.css") }

\* outputs of more than five lines
LongOutputs ==
  { <<Utf8("/w/a.css"), Utf8("/w/b.css"), Utf8("/w/c.css"), Utf8("/w/d.css"), Utf8("/w/e.css"),
      Utf8("/w/src/index.css")>>,
    <<Utf8("/w/a.css"), Utf8("/w/b.css"), Utf8("/w/c.css"), Utf8("/w/d.css"), Utf8("/w/main.css"),
      Utf8("/w/src/index.css")>> }

SearchOutputs ==
  { [lines |-> lines, root |-> Utf8("/w")] :
      lines \in (SeqsUpTo(MatchedFiles, MaxMatches) \ {<<>>}) \cup LongOutputs }

SelectionInit ==
  /\ uArg \in SearchOutputs
  /\ uRet = <<>>
  /\ cSegs = <<>>
  /\ cIn = <<>>
  /\ cFed = 0
  /\ cMode = "idle"
  /\ cBuf = NewMessageBuffer
  /\ cOut = <<>>
  /\ ENTRYPOINT = <<>>
  /\ Started
  /\ Proxying

SelectCall ==
  /\ uRet = <<>>
  /\ uRet' = <<entrypointOf(uArg.lines, uArg.root)>>
  /\ UNCHANGED <<uArg, codecVars, engineVars, lifeVars>>

SelectionSpec == SelectionInit /\ [][SelectCall]_vars

(***************************************************************************)
(* The life of the process: the module level code (validateServerCommand), *)
(* main() (spawn, the handlers of the server's error and exit events, of   *)
(* the end of stdin and of SIGTERM and SIGINT) and the events that follow. *)
(* Time is counted in ticks of TickMs, MaxTicks of them while no timer is   *)
(* armed.                                                                  *)
(***************************************************************************)
MaxTicks == 4
TickMs == 1000
GraceMs == 3000

ALLOWED_SERVER_NAMES ==
  <<Utf8("tailwindcss-language-server"), Utf8("@tailwindcss/language-server")>>

\* cmd.split('/').pop()
lastPart(cmd) == With(splitSlash(cmd, 1, <<>>), LAMBDA parts : parts[Len(parts)])

\* s.includes(sub)
includes(s, sub) == \E i \in 0..(Len(s) - Len(sub)) : SubSeq(s, i + 1, i + Len(sub)) = sub

\* lines 39-46: TRUE when cmd is returned, FALSE when process.exit(1) is called
validateServerCommand(cmd) ==
  LET basename == IF lastPart(cmd) # <<>> THEN lastPart(cmd) ELSE cmd
  IN \E n \in 1..Len(ALLOWED_SERVER_NAMES) : includes(basename, ALLOWED_SERVER_NAMES[n])

\* process.env.TAILWIND_LSP_COMMAND || "tailwindcss-language-server"
commandOrDefault ==
  IF TAILWIND_LSP_COMMAND # <<>> THEN TAILWIND_LSP_COMMAND
  ELSE Utf8("tailwindcss-language-server")

\* the values of TAILWIND_LSP_COMMAND
Commands ==
  {<<>>, Utf8("/opt/bin/tailwindcss-language-server"),
   Utf8("@tailwindcss/language-server"), Utf8("/bin/sh"),
   Utf8("/tmp/x-tailwindcss-language-server.sh")}

\* the exit codes of the server program
ExitCodes == {0, 2}

\* what the server program does when it receives SIGTERM: it exits with a
\* code, it is terminated by the signal, it carries on
OnTerm == {"exit", "default", "ignore"}

Exited(code, by) == [state |-> "exited", code |-> <<code>>, by |-> by]
Running(onTerm) == [state |-> "running", onTerm |-> onTerm, code |-> <<>>, signal |-> "none"]

\* the server's exit code, null (<<>>) when a signal terminated it
ExitedWith(code) == [server EXCEPT !.state = "exited", !.code = <<code>>]
KilledBy(signal) == [server EXCEPT !.state = "exited", !.signal = signal]

\* code || 1
orOne(code) == IF code = <<>> \/ code = <<0>> THEN 1 ELSE code[1]
\* code ?? 1
nullishOrOne(code) == IF code = <<>> THEN 1 ELSE code[1]

\* serverProcess.kill(signal)
kill(signal) == kills' = Append(kills, [signal |-> signal, at |-> now])

LifecycleInit ==
  /\ TAILWIND_LSP_COMMAND \in Commands
  /\ adapter = [state |-> "loading", code |-> <<>>, by |-> "none"]
  /\ server = [state |-> "unspawned", onTerm |-> "default", code |-> <<>>, signal |-> "none"]
  /\ kills = <<>>
  /\ delivered = 0
  /\ timer = NoTimer
  /\ now = 0
  /\ stdinOpen = TRUE
  /\ received = {}
  /\ cSegs = <<>>
  /\ cIn = <<>>
  /\ cFed = 0
  /\ cMode = "idle"
  /\ cBuf = NewMessageBuffer
  /\ cOut = <<>>
  /\ ENTRYPOINT = <<>>
  /\ Started
  /\ NoCall

\* the module is loaded and main() runs to its end (lines 48-50, 812-995):
\* the command is validated, the server is spawned (or cannot be started),
\* the handlers are registered
Start ==
  /\ adapter.state = "loading"
  /\ IF ~validateServerCommand(commandOrDefault)
       THEN adapter' = Exited(1, "validateServerCommand") /\ UNCHANGED server
       ELSE /\ adapter' = [adapter EXCEPT !.state = "proxying"]
            /\ \/ \E onTerm \in OnTerm : server' = Running(onTerm)
               \/ server' = [server EXCEPT !.state = "failed"]
  /\ UNCHANGED <<TAILWIND_LSP_COMMAND, kills, delivered, timer, now, stdinOpen, received>>
  /\ UNCHANGED <<codecVars, engineVars, unitVars>>

\* serverProcess.on("error"), lines 834-841
SpawnError ==
  /\ adapter.state = "proxying"
  /\ server.state = "failed"
  /\ adapter' = Exited(1, "error")
  /\ UNCHANGED <<TAILWIND_LSP_COMMAND, server, kills, delivered, timer, now, stdinOpen, received>>
  /\ UNCHANGED <<codecVars, engineVars, unitVars>>

\* the server program ends on its own: it exits with a code, or it crashes
\* (a signal terminates it); what the server does once this process has
\* exited is not followed
ServerExits ==
  /\ adapter.state = "proxying"
  /\ server.state = "running"
  /\ \/ \E code \in ExitCodes : server' = ExitedWith(code)
     \/ server' = KilledBy("SIGSEGV")
  /\ UNCHANGED <<TAILWIND_LSP_COMMAND, adapter, kills, delivered, timer, now, stdinOpen,
                 received>>
  /\ UNCHANGED <<codecVars, engineVars, unitVars>>

\* a signal sent by kill reaches the server
ServerReceives ==
  /\ adapter.state = "proxying"
  /\ delivered < Len(kills)
  /\ delivered' = delivered + 1
  /\ LET signal == kills[delivered + 1].signal
     IN IF server.state # "running" THEN UNCHANGED server
        ELSE IF signal = "SIGKILL" \/ server.onTerm = "default" THEN server' = KilledBy(signal)
        ELSE IF server.onTerm = "exit" THEN \E code \in ExitCodes : server' = ExitedWith(code)
        ELSE UNCHANGED server
  /\ UNCHANGED <<TAILWIND_LSP_COMMAND, adapter, kills, timer, now, stdinOpen, received>>
  /\ UNCHANGED <<codecVars, engineVars, unitVars>>

\* serverProcess.on("exit"), lines 843-846
ServerExitEvent ==
  /\ adapter.state = "proxying"
  /\ server.state = "exited"
  /\ adapter' = Exited(nullishOrOne(server.code), "exit")
  /\ UNCHANGED <<TAILWIND_LSP_COMMAND, server, kills, delivered, timer, now, stdinOpen,
                 received>>
  /\ UNCHANGED <<codecVars, engineVars, unitVars>>

\* the handler without its setTimeout
StdinEndNoTimer ==
  /\ adapter.state = "proxying"
  /\ stdinOpen
  /\ stdinOpen' = FALSE
  /\ kill("SIGTERM")
  /\ UNCHANGED <<TAILWIND_LSP_COMMAND, adapter, server, delivered, timer, now, received>>
  /\ UNCHANGED <<codecVars, engineVars, unitVars>>

\* process.stdin.on("end"), lines 978-984
StdinEnd ==
  /\ adapter.state = "proxying"
  /\ stdinOpen
  /\ stdinOpen' = FALSE
  /\ kill("SIGTERM")
  /\ timer' = [armed |-> TRUE, due |-> now + GraceMs]
  /\ UNCHANGED <<TAILWIND_LSP_COMMAND, adapter, server, delivered, now, received>>
  /\ UNCHANGED <<codecVars, engineVars, unitVars>>

\* the callback of the setTimeout of line 981
TimerFires ==
  /\ adapter.state = "proxying"
  /\ timer.armed
  /\ now >= timer.due
  /\ kill("SIGKILL")
  /\ timer' = NoTimer
  /\ UNCHANGED <<TAILWIND_LSP_COMMAND, adapter, server, delivered, now, stdinOpen, received>>
  /\ UNCHANGED <<codecVars, engineVars, unitVars>>

\* process.on("SIGTERM") and process.on("SIGINT"), lines 986-994
TerminationSignal ==
  /\ adapter.state = "proxying"
  /\ \E signal \in {"SIGTERM", "SIGINT"} \ received :
       received' = received \cup {signal}
  /\ kill("SIGTERM")
  /\ UNCHANGED <<TAILWIND_LSP_COMMAND, adapter, server, delivered, timer, now, stdinOpen>>
  /\ UNCHANGED <<codecVars, engineVars, unitVars>>

\* time passes; a timer that is due runs before it passes further
Tick ==
  /\ adapter.state = "proxying"
  /\ IF timer.armed THEN now < timer.due ELSE now < MaxTicks * TickMs
  /\ now' = now + TickMs
  /\ UNCHANGED <<TAILWIND_LSP_COMMAND, adapter, server, kills, delivered, timer, stdinOpen,
                 received>>
  /\ UNCHANGED <<codecVars, engineVars, unitVars>>

LifecycleNext ==
  \/ Start \/ SpawnError \/ ServerExits \/ ServerReceives \/ ServerExitEvent
  \/ StdinEnd \/ TimerFires \/ TerminationSignal \/ Tick

LifecycleSpec == LifecycleInit /\ [][LifecycleNext]_vars

\* the event loop runs the callbacks that are due, the kernel delivers the
\* signals sent, time passes
LifecycleFairness ==
  /\ WF_vars(Start) /\ WF_vars(SpawnError) /\ WF_vars(ServerReceives)
  /\ WF_vars(ServerExitEvent) /\ WF_vars(TimerFires) /\ WF_vars(Tick)

FairLifecycleSpec == LifecycleSpec /\ LifecycleFairness

(***************************************************************************)
(* The launch with the host already writing.  main() runs to its end       *)
(* before any event is handled; when spawn cannot start the program it     *)
(* queues the error event with process.nextTick, and the callbacks of      *)
(* process.nextTick run before the event loop hands out a data event.      *)
(***************************************************************************)
\* a data event is handed out whatever is queued
ioEventsBeforeTicks(a, srv) == a.state = "proxying"

\* the event loop hands out a data event: the handlers are registered and no
\* error event is queued
ioEventsRun(a, srv) == a.state = "proxying" /\ srv.state # "failed"

LaunchStdinData == ioEventsRun(adapter, server) /\ StdinData

LaunchNext == Start \/ SpawnError \/ HostSend \/ LaunchStdinData

LaunchSpec ==
  LifecycleInit /\ [][LaunchNext]_vars /\ WF_vars(Start) /\ WF_vars(SpawnError)


(***************************************************************************)
(* Properties of the session.  A message is classified here by what it is  *)
(* (its id and its method), not by what the handler did with it.           *)
(***************************************************************************)
HasId(m) == F(m, "id").t # "undefined"

InterceptedRequest(m) ==
  /\ HasId(m)
  /\ F(m, "method") \in {S("client/registerCapability"), S("client/unregisterCapability"),
                         S("workspace/configuration"), S("window/workDoneProgress/create")}

AbsorbedNotification(m) ==
  ~HasId(m) /\ F(m, "method") \in {S("$/progress"), S("window/logMessage")}

\* the messages a peer decodes from the frame of one write
Decoded(w) == feed(NewMessageBuffer, w.bytes).messages

\* the positions, in a stream, of the writes of a kind made for message k
WritesFor(stream, kind, k) ==
  {n \in 1..Len(stream) : stream[n].kind = kind /\ stream[n].of = k}

Forwards(stream) == SelectSeq(stream, LAMBDA w : w.kind = "forward")
Responses(stream) == SelectSeq(stream, LAMBDA w : w.kind = "respond")

Increasing(stream) ==
  \A a, b \in 1..Len(stream) : a < b => stream[a].of < stream[b].of

\* C1 Host isolation: a server request with an id whose method is one of the
\* four intercepted methods is never written to the host-bound stream, no
\* write on the host-bound stream is made on its account, and no synthesized
\* response is ever written to the host-bound stream (responses go to the
\* server-bound stream only).
HostIsolation ==
  /\ \A n \in 1..Len(toHost) : toHost[n].kind # "respond"
  /\ \A k \in 1..Len(fromServer) :
       InterceptedRequest(fromServer[k]) =>
         \A n \in 1..Len(toHost) :
           toHost[n].of # k /\ Decoded(toHost[n]) # <<fromServer[k]>>

HostIsolationWitness ==
  \E k \in 1..Len(fromServer) :
    /\ InterceptedRequest(fromServer[k])
    /\ F(fromServer[k], "method") = S("workspace/configuration")
    /\ WritesFor(toServer, "respond", k) # {}
    /\ toHost # <<>>

\* C2 Response correlation: each intercepted server request with identifier
\* i produces exactly one synthesized message, whose id is i, which has no
\* method and no error field and whose result is null for the registration,
\* unregistration and progress-token-creation methods; and every synthesized
\* message answers an intercepted request and carries its id.
ResponseCorrelation ==
  /\ \A k \in 1..Len(fromServer) :
       InterceptedRequest(fromServer[k]) =>
         /\ Cardinality(WritesFor(toServer, "respond", k)) = 1
         /\ \A n \in WritesFor(toServer, "respond", k) :
              /\ Len(Decoded(toServer[n])) = 1
              /\ F(Decoded(toServer[n])[1], "id") = F(fromServer[k], "id")
              /\ F(Decoded(toServer[n])[1], "method") = Undefined
              /\ F(Decoded(toServer[n])[1], "error") = Undefined
              /\ F(fromServer[k], "method") # S("workspace/configuration")
                   => F(Decoded(toServer[n])[1], "result") = JNull
  /\ \A n \in 1..Len(toServer) :
       toServer[n].kind = "respond" =>
         /\ toServer[n].of \in 1..Len(fromServer)
         /\ InterceptedRequest(fromServer[toServer[n].of])
         /\ F(Decoded(toServer[n])[1], "id") = F(fromServer[toServer[n].of], "id")

\* C3 Pass-through: every decoded message that is not an intercepted server
\* request, not an absorbed server notification and not a host initialize
\* message is written exactly once to the opposite peer, as a frame whose
\* decoded content is the received message.
PassThrough ==
  /\ \A k \in 1..Len(fromHost) :
       F(fromHost[k], "method") # S("initialize") =>
         /\ Cardinality(WritesFor(toServer, "forward", k)) = 1
         /\ \A n \in WritesFor(toServer, "forward", k) :
              Decoded(toServer[n]) = <<fromHost[k]>>
  /\ \A k \in 1..Len(fromServer) :
       ~InterceptedRequest(fromServer[k]) /\ ~AbsorbedNotification(fromServer[k]) =>
         /\ Cardinality(WritesFor(toHost, "forward", k)) = 1
         /\ \A n \in WritesFor(toHost, "forward", k) :
              Decoded(toHost[n]) = <<fromServer[k]>>

\* C8 Per-direction ordering: the messages forwarded to the server are in
\* the order in which they were decoded from the host, the messages
\* forwarded to the host are in the order in which they were decoded from
\* the server, and the synthesized responses are in the order of the
\* requests they answer.
PerDirectionOrdering ==
  /\ Increasing(Forwards(toServer))
  /\ Increasing(Responses(toServer))
  /\ Increasing(toHost)
  /\ \A n \in 1..Len(toServer) :
       /\ toServer[n].kind = "forward" =>
            /\ toServer[n].of \in 1..Len(fromHost)
            /\ F(Decoded(toServer[n])[1], "id") = F(fromHost[toServer[n].of], "id")
            /\ F(Decoded(toServer[n])[1], "method") = F(fromHost[toServer[n].of], "method")
       /\ toServer[n].kind = "respond" =>
            /\ toServer[n].of \in 1..Len(fromServer)
            /\ F(Decoded(toServer[n])[1], "id") = F(fromServer[toServer[n].of], "id")
  /\ \A n \in 1..Len(toHost) :
       /\ toHost[n].of \in 1..Len(fromServer)
       /\ Decoded(toHost[n]) = <<fromServer[toHost[n].of]>>

PerDirectionOrderingWitness ==
  /\ Len(Forwards(toServer)) + Len(Responses(toServer)) >= 2
  /\ \/ Len(Forwards(toServer)) = 2 /\ Decoded(toServer[1]) # Decoded(toServer[2])
     \/ Len(Responses(toServer)) = 2 /\ Decoded(toServer[1]) # Decoded(toServer[2])

\* C9 Configuration defaults: the response to a workspace/configuration
\* request with n items has a result array of n entries, in request order,
\* where entry k is decided by the section of item k alone: for tailwindCSS
\* the Tailwind defaults (classAttributes class, className, ngClass, the
\* seven lint severities, experimental.configFile the resolved entry point),
\* for editor {tabSize: 2}, for any other or missing section {}.
ExpectedLint ==
  JObj(<<P("cssConflict", S("warning")), P("invalidApply", S("error")),
         P("invalidScreen", S("error")), P("invalidVariant", S("error")),
         P("invalidConfigPath", S("error")), P("invalidTailwindDirective", S("error")),
         P("recommendedVariantOrder", S("warning"))>>)

EntryFits(section, entry) ==
  IF section = S("tailwindCSS")
    THEN /\ F(entry, "classAttributes") = JArr(<<S("class"), S("className"), S("ngClass")>>)
         /\ F(entry, "lint") = ExpectedLint
         /\ F(entry, "experimental") = JObj(<<P("configFile", detectedCssEntrypoint)>>)
         /\ detectedCssEntrypoint.t \in {"null", "string"}
  ELSE IF section = S("editor") THEN entry = JObj(<<P("tabSize", JNum(2))>>)
  ELSE entry = JObj(<<>>)

\* the configuration exchanges so far: request and decoded response
ConfigurationExchanges ==
  { [items |-> F(F(fromServer[toServer[n].of], "params"), "items").v,
     result |-> F(Decoded(toServer[n])[1], "result")] :
      n \in {n \in 1..Len(toServer) :
               /\ toServer[n].kind = "respond"
               /\ F(fromServer[toServer[n].of], "method") = S("workspace/configuration")} }

AbsorbedNotifications ==
  \A k \in 1..Len(fromServer) :
    AbsorbedNotification(fromServer[k]) =>
      /\ \A n \in 1..Len(toHost) :
           toHost[n].of # k /\ Decoded(toHost[n]) # <<fromServer[k]>>
      /\ WritesFor(toServer, "respond", k) = {}
      /\ \A n \in 1..Len(toServer) : Decoded(toServer[n]) # <<fromServer[k]>>

AbsorbedNotificationsWitness ==
  \E j, k \in 1..Len(fromServer) :
    /\ j < k
    /\ AbsorbedNotification(fromServer[j])
    /\ F(fromServer[j], "method") = S("window/logMessage")
    /\ WritesFor(toHost, "forward", k) # {}

AllFrames == \A k \in 1..Len(cSegs) : cSegs[k].kind = "frame"

\* the messages of the frame segments of segs, in order
RECURSIVE FrameMessages(_)
FrameMessages(segs) ==
  IF segs = <<>> THEN <<>>
  ELSE (IF Head(segs).kind = "frame" THEN <<Head(segs).msg>> ELSE <<>>)
       \o FrameMessages(Tail(segs))

\* C4 Fragmentation invariance: once the whole byte sequence has been fed,
\* in whatever chunks, the messages returned over the calls are the ordered
\* list that one feed call on a fresh MessageBuffer returns for the whole
\* sequence.
FragmentationInvariance ==
  cFed = Len(cIn) => cOut = feed(NewMessageBuffer, cIn).messages

FragmentationWitness ==
  /\ cMode = "chunked"
  /\ cFed = Len(cIn)
  /\ AllFrames
  /\ Len(cSegs) = 2
  /\ cOut = <<cSegs[1].msg, cSegs[2].msg>>

\* C5 Frame round-trip: feeding encodeMessage(m) as one chunk to a fresh
\* MessageBuffer returns exactly one message, equal to m.
FrameRoundTrip ==
  (cMode = "whole" /\ Len(cSegs) = 1 /\ cSegs[1].kind = "frame")
    => cOut = <<cSegs[1].msg>>

FrameRoundTripWitness ==
  /\ cMode = "whole"
  /\ cSegs = <<Frame(JStr(<<226, 130, 172, 195, 169, 47>>))>>
  /\ cOut = <<JStr(<<226, 130, 172, 195, 169, 47>>)>>

\* C6 Multi-frame batching: one feed call on the concatenation of N encoded
\* messages returns exactly those N messages in order and leaves no buffered
\* bytes (and no pending length).
MultiFrameBatching ==
  (cMode = "whole" /\ AllFrames)
    => /\ cOut = [k \in 1..Len(cSegs) |-> cSegs[k].msg]
       /\ cBuf = NewMessageBuffer

MultiFrameBatchingWitness ==
  /\ cMode = "whole"
  /\ AllFrames
  /\ Len(cSegs) = 2
  /\ cSegs[1] # cSegs[2]
  /\ Len(cOut) = 2

\* C7 Malformed-header resilience: a header block without a parsable
\* Content-Length yields no message and is discarded with its terminator, and
\* the frames around it are still decoded: an input made of such blocks and
\* of well-formed frames yields, once fed, exactly the frames' messages in
\* order, with nothing left buffered.
MalformedHeaderResilience ==
  (cFed = Len(cIn) /\ \A k \in 1..Len(cSegs) : cSegs[k].kind \in {"badHeader", "frame"})
    => /\ cOut = FrameMessages(cSegs)
       /\ cBuf = NewMessageBuffer

MalformedHeaderWitness ==
  /\ cMode = "whole"
  /\ Len(cSegs) = 2
  /\ cSegs[1].kind = "badHeader"
  /\ cSegs[2].kind = "frame"
  /\ cOut = <<cSegs[2].msg>>

(***************************************************************************)
(* Properties of the handshake.                                            *)
(***************************************************************************)
IsInitialize(m) == F(m, "method") = S("initialize")

\* every property of the object a whose key is not in set is a property of
\* b with the same value (nothing to keep when a is not an object)
Kept(a, b, set) ==
  a.t = "object" =>
    \A n \in 1..Len(a.v) : a.v[n].k \notin set => Get(b, a.v[n].k) = a.v[n].v

Keys(lits) == {Utf8(lits[n]) : n \in 1..Len(lits)}

\* the properties of a capabilities object that the rewrite sets, by the
\* place of the object
SetInCapabilities == Keys(<<"window", "workspace", "textDocument">>)
SetInWorkspace ==
  Keys(<<"didChangeConfiguration", "configuration", "workspaceFolders", "didChangeWatchedFiles">>)
Features ==
  <<"completion", "hover", "colorProvider", "codeAction", "diagnostic", "formatting",
    "rangeFormatting", "rename">>
SetInFeature(feature) ==
  {Utf8("dynamicRegistration")} \cup
  CASE feature = "completion" -> Keys(<<"completionItem">>)
    [] feature = "hover" -> Keys(<<"contentFormat">>)
    [] feature = "codeAction" ->
         Keys(<<"codeActionLiteralSupport", "resolveSupport", "dataSupport",
                "isPreferredSupport", "disabledSupport", "honorsChangeAnnotations">>)
    [] feature = "rename" ->
         Keys(<<"prepareSupport", "prepareSupportDefaultBehavior", "honorsChangeAnnotations">>)
    [] OTHER -> {}

\* the capabilities a message declares (undefined when it has no params)
CapabilitiesOf(m) == OF(F(m, "params"), "capabilities")

CapabilitiesKept(o, f) ==
  LET co == CapabilitiesOf(o)
      cf == CapabilitiesOf(f)
  IN /\ Kept(co, cf, SetInCapabilities)
     /\ Kept(OF(co, "window"), OF(cf, "window"), Keys(<<"workDoneProgress">>))
     /\ Kept(OF(co, "workspace"), OF(cf, "workspace"), SetInWorkspace)
     /\ \A feature \in Keys(<<"didChangeConfiguration", "didChangeWatchedFiles">>) :
          Kept(OptGet(OF(co, "workspace"), feature), OptGet(OF(cf, "workspace"), feature),
               {Utf8("dynamicRegistration")})
     /\ Kept(OF(co, "textDocument"), OF(cf, "textDocument"), Keys(Features))
     /\ \A n \in 1..Len(Features) :
          Kept(OF(OF(co, "textDocument"), Features[n]), OF(OF(cf, "textDocument"), Features[n]),
               SetInFeature(Features[n]))
     /\ Kept(OF(OF(OF(co, "textDocument"), "completion"), "completionItem"),
             OF(OF(OF(cf, "textDocument"), "completion"), "completionItem"),
             Keys(<<"snippetSupport", "documentationFormat">>))

\* the initialize requests decoded from the host with the message each write
\* made for them carries
ForwardedHandshakes ==
  {[o |-> fromHost[toServer[n].of], f |-> Decoded(toServer[n])[1]] :
     n \in {i \in 1..Len(toServer) :
              toServer[i].kind = "forward" /\ IsInitialize(fromHost[toServer[i].of])}}

\* C11 Handshake capability merge: the message written to the server for a
\* host initialize request has the id, the method and every property of
\* params other than capabilities of the request, and every capability
\* property the request declares that the rewrite does not set (at the top
\* level of capabilities, in window, in workspace, in textDocument, in a
\* per-feature object) at the same place with the same value.
HandshakeCapabilityMerge ==
  \A h \in ForwardedHandshakes :
    /\ Kept(h.o, h.f, Keys(<<"params">>))
    /\ Kept(F(h.o, "params"), F(h.f, "params"), Keys(<<"capabilities">>))
    /\ CapabilitiesKept(h.o, h.f)

\* the request that declares capabilities of its own has been rewritten and
\* forwarded: its declared fields sit next to the merged flags
HandshakeCapabilityMergeWitness ==
  \E h \in ForwardedHandshakes :
    /\ CapabilitiesOf(h.o) = DeclaredCapabilities
    /\ F(F(h.f, "params"), "processId") = JNum(7)
    /\ F(CapabilitiesOf(h.f), "experimental") = S("x")
    /\ F(F(CapabilitiesOf(h.f), "workspace"), "applyEdit") = JBool(TRUE)
    /\ F(F(CapabilitiesOf(h.f), "workspace"), "configuration") = JBool(TRUE)
    /\ F(F(CapabilitiesOf(h.f), "textDocument"), "semanticTokens") = JNum(5)
    /\ F(F(F(CapabilitiesOf(h.f), "textDocument"), "completion"), "labelDetails") = JBool(TRUE)
    /\ F(F(F(CapabilitiesOf(h.f), "textDocument"), "completion"), "dynamicRegistration")
         = JBool(TRUE)

\* the flags the rewrite declares, read from a message
DeclaresDynamicRegistration(m) ==
  LET IsTrue(x, lit) == OF(x, lit) = JBool(TRUE)
      workspace == OF(CapabilitiesOf(m), "workspace")
      textDocument == OF(CapabilitiesOf(m), "textDocument")
  IN /\ IsTrue(OF(workspace, "didChangeConfiguration"), "dynamicRegistration")
     /\ IsTrue(OF(workspace, "didChangeWatchedFiles"), "dynamicRegistration")
     /\ \A n \in 1..Len(Features) :
          IsTrue(OF(textDocument, Features[n]), "dynamicRegistration")
     /\ IsTrue(OF(textDocument, "rename"), "prepareSupport")
     /\ IsTrue(workspace, "configuration")
     /\ IsTrue(workspace, "workspaceFolders")
     /\ IsTrue(OF(CapabilitiesOf(m), "window"), "workDoneProgress")

\* C12 Handshake rewrite is unconditional: for every initialize request
\* decoded from the host, whatever its capabilities and its root, a message
\* is written to the server for it, and the message declares
\* dynamicRegistration true for workspace.didChangeConfiguration,
\* workspace.didChangeWatchedFiles and the eight textDocument features,
\* rename.prepareSupport true, workspace.configuration true,
\* workspace.workspaceFolders true and window.workDoneProgress true.
HandshakeRewriteUnconditional ==
  /\ \A k \in 1..Len(fromHost) :
       IsInitialize(fromHost[k]) => WritesFor(toServer, "forward", k) # {}
  /\ \A h \in ForwardedHandshakes : DeclaresDynamicRegistration(h.f)

(***************************************************************************)
(* Properties of validateWorkspacePath.                                    *)
(***************************************************************************)
\* the segments of a path once "." and ".." are resolved (a relative path
\* starts in the working directory)
ResolvedSegments(path) ==
  normalizeSegments(splitSlash(IF path # <<>> /\ path[1] = 47 THEN path
                               ELSE CWD \o <<47>> \o path, 1, <<>>), <<>>)

DenyList ==
  {Utf8("etc"), Utf8("usr"), Utf8("bin"), Utf8("sbin"), Utf8("var"), Utf8("root"),
   Utf8("sys"), Utf8("proc"), Utf8("dev")}

\* the path is a deny-listed directory or lies under one
DenyListed(path) == ResolvedSegments(path) # <<>> /\ ResolvedSegments(path)[1] \in DenyList

\* the path with its segments resolved, as a string
ResolvedPath(path) ==
  IF ResolvedSegments(path) = <<>> THEN <<47>>
  ELSE <<47>> \o JoinSlash(ResolvedSegments(path))

\* some directory on the way to the path may not be searched
Inaccessible(path) ==
  \E n \in 1..(Len(ResolvedSegments(path)) - 1) :
    <<47>> \o JoinSlash(SubSeq(ResolvedSegments(path), 1, n)) \in Unsearchable

\* C13 Workspace path rejection: validateWorkspacePath returns null for a
\* path that, with "." and ".." resolved, is a deny-listed directory or lies
\* under one, for a path that does not exist, for one that is not a
\* directory and for one that cannot be accessed; for an existing accessible
\* directory outside the deny list it returns the resolved path.
WorkspacePathRejection ==
  uRet # <<>> =>
    IF \/ DenyListed(uArg)
       \/ Inaccessible(uArg)
       \/ ResolvedPath(uArg) \notin Directories
      THEN uRet[1] = JNull
      ELSE uRet[1] = JStr(ResolvedPath(uArg))

\* a path whose ".." leads under /etc has been rejected, although the
\* directory it names exists
WorkspacePathRejectionWitness ==
  /\ uArg = Utf8("/w/../etc")
  /\ ResolvedPath(uArg) \in Directories
  /\ uRet = <<JNull>>

(***************************************************************************)
(* Properties of the entry point cache and of the workspace root.          *)
(***************************************************************************)
\* the roots validateWorkspacePath accepts among the requests decoded so far
AcceptedRoots ==
  {k \in 1..Len(fromHost) :
     /\ IsInitialize(fromHost[k])
     /\ F(F(fromHost[k], "params"), "rootUri") \in {S("file:///w"), S("file:///w/src")}}

\* C14 Entry-point caching: in a session grep is run at most once, and once
\* the cache holds an outcome (a path or null) no step changes it or runs
\* grep again: every later call of the resolver returns the cached outcome.
EntryPointCaching ==
  /\ [](searches <= 1)
  /\ [][detectedCssEntrypoint # Undefined =>
          detectedCssEntrypoint' = detectedCssEntrypoint /\ searches' = searches]_vars

\* grep has been run once, and the resolver has been called again after it:
\* two handshakes with an accepted root have been handled
EntryPointCachingWitness ==
  /\ searches = 1
  /\ Cardinality(AcceptedRoots) >= 2
  /\ \A k \in AcceptedRoots : WritesFor(toServer, "forward", k) # {}

\* C18 Workspace Root is set once: once workspaceRoot holds a value no step
\* changes it, whatever the host sends afterwards (a second initialize
\* request that names another valid directory included).
WorkspaceRootSetOnce ==
  [][workspaceRoot # JNull => workspaceRoot' = workspaceRoot]_vars

\* C19 Resolver without a root does not cache: a step in which the resolver
\* can only have been called with no override and no workspace root (there
\* is none before the step and none after it) leaves the cache in the state
\* "not yet searched", so that a call made once the root is known searches.
ResolverWithoutRootDoesNotCache ==
  [][(/\ ENTRYPOINT = <<>>
      /\ workspaceRoot = JNull /\ workspaceRoot' = JNull
      /\ detectedCssEntrypoint = Undefined)
       => detectedCssEntrypoint' = Undefined]_vars

(***************************************************************************)
(* Properties of the life of the process.                                  *)
(***************************************************************************)
\* the part of a command after its last "/"
Basename(cmd) ==
  LET slashes == {i \in 1..Len(cmd) : cmd[i] = 47}
      last == IF slashes = {} THEN 0 ELSE CHOOSE i \in slashes : \A j \in slashes : j <= i
  IN SubSeq(cmd, last + 1, Len(cmd))

AllowListed(cmd) ==
  \E n \in 1..Len(ALLOWED_SERVER_NAMES) : Basename(cmd) = ALLOWED_SERVER_NAMES[n]

Overridden == TAILWIND_LSP_COMMAND # <<>>

\* C15 Executable allow-list: an override of the server command is accepted
\* (the process goes on to spawn it) only when its basename is one of the
\* allow-listed names; for any other override the process exits with its
\* diagnostic (code 1) before a server is spawned and before a protocol
\* message is read or written.
ExecutableAllowList ==
  /\ (Overridden /\ server.state # "unspawned") => AllowListed(TAILWIND_LSP_COMMAND)
  /\ (Overridden /\ ~AllowListed(TAILWIND_LSP_COMMAND) /\ adapter.state # "loading") =>
       /\ adapter = Exited(1, "validateServerCommand")
       /\ server.state = "unspawned"
       /\ fromHost = <<>> /\ fromServer = <<>> /\ toHost = <<>> /\ toServer = <<>>

\* C16 Exit-status mirroring, as stated: when the exit of the server ends
\* this process, this process exits with the exit status of the server.
ExitStatusMirroring ==
  adapter.by = "exit" => adapter.code = server.code

\* C16 Exit-status mirroring, amended: when the exit of the server ends this
\* process, this process exits with the exit code of the server if it has
\* one, and with 1 if a signal terminated the server.
ExitCodeMirroring ==
  adapter.by = "exit" =>
    /\ server.state = "exited"
    /\ adapter.state = "exited"
    /\ server.code # <<>> => adapter.code = server.code
    /\ server.code = <<>> => server.signal # "none" /\ adapter.code = <<1>>

\* the server has exited with code 2 after a termination request and this
\* process has exited with 2
ExitCodeMirroringWitness ==
  /\ adapter = Exited(2, "exit")
  /\ server.code = <<2>>
  /\ delivered > 0

HasKill(signal) == \E n \in 1..Len(kills) : kills[n].signal = signal

\* C17 Shutdown on host-stream closure: once stdin has ended the server has
\* been sent SIGTERM and, until SIGKILL is sent, the timer is armed for
\* GraceMs after that; every SIGKILL comes GraceMs or more after a SIGTERM
\* sent before it; and this process eventually exits once stdin has ended,
\* whatever the server does with SIGTERM.
ShutdownOnStdinEnd ==
  /\ [](~stdinOpen =>
          /\ HasKill("SIGTERM")
          /\ adapter.state = "proxying" => timer.armed \/ HasKill("SIGKILL"))
  /\ [](\A n \in 1..Len(kills) :
          kills[n].signal = "SIGKILL" =>
            \E m \in 1..(n - 1) :
              kills[m].signal = "SIGTERM" /\ kills[m].at + GraceMs <= kills[n].at)
  /\ (~stdinOpen ~> adapter.state = "exited")

\* a server that carries on after SIGTERM has been sent SIGTERM at the end
\* of stdin and SIGKILL GraceMs later, and this process has exited
ShutdownOnStdinEndWitness ==
  /\ ~stdinOpen
  /\ server.onTerm = "ignore"
  /\ received = {}
  /\ Len(kills) = 2
  /\ kills[1].signal = "SIGTERM"
  /\ kills[2] = [signal |-> "SIGKILL", at |-> kills[1].at + GraceMs]
  /\ server.signal = "SIGKILL"
  /\ adapter = Exited(1, "exit")

\* C20 Termination signal: once this process has received SIGTERM or SIGINT
\* it eventually exits (after the grace period or at the exit of the server,
\* whichever comes first), whatever the server does with SIGTERM.
TerminationSignalCloses ==
  received # {} ~> adapter.state = "exited"

(***************************************************************************)
(* Properties of error handling.                                           *)
(***************************************************************************)
\* the root an initialize request declares (undefined when it declares none)
DeclaredRoot(m) ==
  OrElse(OF(F(m, "params"), "rootUri"), OF(F(m, "params"), "rootPath"))

\* the request declares a root that is not an existing directory outside the
\* deny list
RootFailsValidation(m) ==
  /\ IsInitialize(m)
  /\ Truthy(DeclaredRoot(m))
  /\ DeclaredRoot(m) \notin {S("file:///w"), S("file:///w/src")}

\* C21 Rejected workspace root is recovered locally: while every root the
\* host has declared fails validation the workspace root is unset; every
\* initialize request whose root fails validation (a deny-listed path, a
\* URI that is no percent-encoding) has been forwarded to the server; and
\* the session goes on (no exception has ended it).
RejectedRootRecovered ==
  /\ (\A k \in 1..Len(fromHost) :
        IsInitialize(fromHost[k]) =>
          RootFailsValidation(fromHost[k]) \/ ~Truthy(DeclaredRoot(fromHost[k])))
       => workspaceRoot = JNull
  /\ \A k \in 1..Len(fromHost) :
       RootFailsValidation(fromHost[k]) =>
         /\ WritesFor(toServer, "forward", k) # {}
         /\ ~uncaught

\* the messages the frames written to the server carry, in order
ForwardedMessages == [n \in 1..Len(toServer) |-> Decoded(toServer[n])[1]]

HostDone == cFed = Len(cIn) /\ hostPipe = <<>>

\* C22 Unparsable body is dropped, not fatal: a frame whose body, of the
\* declared length, is no JSON text yields no message: nothing is written
\* to either peer on its account and no exception ends the session; once
\* the host's stream has been handled, in whatever chunks, the messages
\* decoded and the messages forwarded are the messages of the well-formed
\* frames, in order, and nothing is left in the decoder.
UnparsableBodyDropped ==
  /\ ~uncaught
  /\ toHost = <<>>
  /\ \A n \in 1..Len(toServer) :
       /\ toServer[n].kind = "forward"
       /\ Decoded(toServer[n]) = <<fromHost[toServer[n].of]>>
  /\ HostDone =>
       /\ fromHost = FrameMessages(cSegs)
       /\ ForwardedMessages = FrameMessages(cSegs)
       /\ clientBuffer = NewMessageBuffer

\* a frame with an unparsable body between two well-formed frames: the two
\* have been forwarded and nothing else
UnparsableBodyDroppedWitness ==
  /\ HostDone
  /\ Len(cSegs) = 3
  /\ cSegs[1].kind = "frame" /\ cSegs[2].kind = "badBody" /\ cSegs[3].kind = "frame"
  /\ ForwardedMessages = <<cSegs[1].msg, cSegs[3].msg>>

\* C23 Truncated-frame recovery: when the input holds only well-formed
\* frames and frames whose body is shorter than their header declares, then
\* once all of it has been fed the messages returned are those of the
\* well-formed frames, each as its own message, in order.
TruncatedFrameRecovery ==
  (/\ cMode # "idle"
   /\ cFed = Len(cIn)
   /\ \A n \in 1..Len(cSegs) : cSegs[n].kind \in {"frame", "truncated"})
    => cOut = FrameMessages(cSegs)

\* the methods of the request logging switch (lines 864-889)
LoggedRequestMethods ==
  { S("textDocument/completion"), S("completionItem/resolve"), S("textDocument/formatting"),
    S("textDocument/rangeFormatting"), S("textDocument/prepareRename"), S("textDocument/rename"),
    S("textDocument/codeAction"), S("codeAction/resolve") }

IsResponse(m) ==
  /\ F(m, "method").t = "undefined"
  /\ F(m, "id").t # "undefined"
  /\ F(m, "result").t # "undefined" \/ F(m, "error").t # "undefined"

\* C24 Diagnostic logging is non-interfering: with logging disabled, a host
\* request that only the request logging stands between its decoding and
\* its forwarding is written to the server, and a server response, which
\* only the response logging stands before, is written to the host: no
\* message is dropped because of a logging step.
LoggingNonInterference ==
  /\ \A k \in 1..Len(fromHost) :
       F(fromHost[k], "method") \in LoggedRequestMethods =>
         WritesFor(toServer, "forward", k) # {}
  /\ \A k \in 1..Len(fromServer) :
       IsResponse(fromServer[k]) => WritesFor(toHost, "forward", k) # {}

(* Properties of the registration bookkeeping. *)
IsRegistration(m) == InterceptedRequest(m) /\ F(m, "method") = S("client/registerCapability")
IsUnregistration(m) == InterceptedRequest(m) /\ F(m, "method") = S("client/unregisterCapability")

\* the list an unregistration carries, under whichever key it has
UnregistrationList(m) ==
  IF F(F(m, "params"), "unregisterations").t # "undefined"
    THEN F(F(m, "params"), "unregisterations")
    ELSE F(F(m, "params"), "unregistrations")

\* the entries of a list up to an entry that is no object
RECURSIVE EntriesOf(_)
EntriesOf(list) ==
  IF list = <<>> \/ Head(list).t # "object" THEN <<>>
  ELSE <<Head(list)>> \o EntriesOf(Tail(list))

\* what the server has asked for so far, entry by entry, in order
RECURSIVE CapabilityEvents(_)
CapabilityEvents(msgs) ==
  IF msgs = <<>> THEN <<>>
  ELSE (IF IsRegistration(Head(msgs))
          THEN [n \in 1..Len(EntriesOf(F(F(Head(msgs), "params"), "registrations").v)) |->
                  [op |-> "register",
                   entry |-> EntriesOf(F(F(Head(msgs), "params"), "registrations").v)[n]]]
        ELSE IF IsUnregistration(Head(msgs))
          THEN [n \in 1..Len(EntriesOf(UnregistrationList(Head(msgs)).v)) |->
                  [op |-> "unregister", entry |-> EntriesOf(UnregistrationList(Head(msgs)).v)[n]]]
        ELSE <<>>)
       \o CapabilityEvents(Tail(msgs))

\* event i registers an id that no later event unregisters
Live(ev, i) ==
  /\ ev[i].op = "register"
  /\ \A j \in (i + 1)..Len(ev) :
       ~(ev[j].op = "unregister" /\ F(ev[j].entry, "id") = F(ev[i].entry, "id"))

\* event i is the last registration of its id
Latest(ev, i) ==
  \A j \in (i + 1)..Len(ev) :
    ~(ev[j].op = "register" /\ F(ev[j].entry, "id") = F(ev[i].entry, "id"))

\* C25 Registration bookkeeping: the keys of the Registered Capability map
\* are exactly the ids that a registration entry received so far carries and
\* that no later unregistration lists; the record under an id holds the
\* method and the registration options of the latest entry registered with
\* that id.
RegistrationBookkeeping ==
  With(CapabilityEvents(fromServer), LAMBDA ev :
    /\ {registeredCapabilities[n].k : n \in 1..Len(registeredCapabilities)}
         = {F(ev[i].entry, "id") : i \in {i \in 1..Len(ev) : Live(ev, i)}}
    /\ \A a, b \in 1..Len(registeredCapabilities) :
         registeredCapabilities[a].k = registeredCapabilities[b].k => a = b
    /\ \A i \in 1..Len(ev) :
         Live(ev, i) /\ Latest(ev, i) =>
           /\ F(MapGet(registeredCapabilities, F(ev[i].entry, "id")), "method")
                = F(ev[i].entry, "method")
           /\ F(MapGet(registeredCapabilities, F(ev[i].entry, "id")), "registerOptions")
                = F(ev[i].entry, "registerOptions"))

\* r1 and r2 were registered, r1 was unregistered, registered with another
\* method and unregistered again: r2 alone is left
RegistrationBookkeepingWitness ==
  /\ Len(fromServer) = 3
  /\ F(fromServer[1], "id") = JNum(10)
  /\ F(fromServer[2], "id") = JNum(11)
  /\ F(fromServer[3], "id") = JNum(12)
  /\ Len(registeredCapabilities) = 1
  /\ registeredCapabilities[1].k = S("r2")
  /\ F(registeredCapabilities[1].v, "method") = S("textDocument/completion")

\* C26 Unregistration accepts either spelling: every unregistration request
\* received, whether its list is under unregisterations or under
\* unregistrations, is answered on the server-bound stream by exactly one
\* response with the request's id and a null result, and the ids it lists
\* are not in the map unless a later request registered them again.
UnregistrationEitherSpelling ==
  \A k \in 1..Len(fromServer) :
    IsUnregistration(fromServer[k]) =>
      /\ Cardinality(WritesFor(toServer, "respond", k)) = 1
      /\ \A n \in WritesFor(toServer, "respond", k) :
           Decoded(toServer[n]) = <<Response(F(fromServer[k], "id"), JNull)>>
      /\ \A e \in {UnregistrationList(fromServer[k]).v[n] :
                     n \in 1..Len(UnregistrationList(fromServer[k]).v)} :
           \/ ~MapHas(registeredCapabilities, F(e, "id"))
           \/ \E j \in (k + 1)..Len(fromServer) : IsRegistration(fromServer[j])

\* the request loop a data event ran in this step, started from a session
\* whose Registered Capability map is caps, writes what the step wrote
SameWritesFrom(caps) ==
  /\ fromServer' # fromServer =>
       \E grep \in GrepOutcomes :
         With(serverLoop(SubSeq(fromServer', Len(fromServer) + 1, Len(fromServer')), 1,
                         Len(fromServer), [Session EXCEPT !.registeredCapabilities = caps],
                         Env(grep)), LAMBDA s :
           s.toServer = toServer' /\ s.toHost = toHost' /\ s.threw = uncaught')
  /\ fromHost' # fromHost =>
       \E grep \in GrepOutcomes :
         With(clientLoop(SubSeq(fromHost', Len(fromHost) + 1, Len(fromHost')), 1,
                         Len(fromHost), [Session EXCEPT !.registeredCapabilities = caps],
                         Env(grep)), LAMBDA s :
           s.toServer = toServer' /\ s.toHost = toHost' /\ s.threw = uncaught')

CapabilityContents ==
  { <<>>,
    <<[k |-> S("r1"), v |-> JObj(<<P("method", S("textDocument/hover"))>>)]>>,
    <<[k |-> S("r2"), v |-> JObj(<<>>)], [k |-> S("r9"), v |-> JObj(<<>>)]>> }

\* C27 Registered capabilities are observational only: whatever the
\* Registered Capability map holds when a data event is handled, the handler
\* writes the same messages to the host and to the server and ends the same
\* way; so two runs that differ in the map only and receive the same
\* messages write the same.
RegisteredCapabilitiesObservational ==
  [][\A caps \in CapabilityContents : SameWritesFrom(caps)]_vars

\* a request is answered and a host request forwarded while the map holds
\* registrations
RegisteredCapabilitiesObservationalWitness ==
  /\ registeredCapabilities # <<>>
  /\ \E j, k \in 1..Len(fromServer) :
       /\ j < k
       /\ IsRegistration(fromServer[j])
       /\ IsUnregistration(fromServer[k])
       /\ WritesFor(toServer, "respond", k) # {}
  /\ toServer[Len(toServer)].kind = "forward"

(* Properties of the entry-point resolver in the session. *)
\* the configFile values of the tailwindCSS entries of the configuration
\* responses written so far
AnsweredConfigFiles ==
  UNION { {F(F(x.result.v[k], "experimental"), "configFile") :
             k \in {k \in 1..Len(x.items) : F(x.items[k], "section") = S("tailwindCSS")}} :
          x \in ConfigurationExchanges }

\* the resolver has been called: a handshake set the root or a configuration
\* query for the section tailwindCSS was answered
ResolverCalled == workspaceRoot # JNull \/ AnsweredConfigFiles # {}

\* C28 Override short-circuit: in a session with the override set, grep is
\* never run, the cache holds either nothing yet or the override, it holds
\* the override once the resolver has been called, with or without a
\* workspace root, and every configuration answer carries the override
\* verbatim as configFile.
OverrideShortCircuit ==
  ENTRYPOINT # <<>> =>
    /\ searches = 0
    /\ detectedCssEntrypoint \in {Undefined, JStr(ENTRYPOINT)}
    /\ ResolverCalled => detectedCssEntrypoint = JStr(ENTRYPOINT)
    /\ AnsweredConfigFiles \subseteq {JStr(ENTRYPOINT)}

\* the override was answered to a configuration query before any root was
\* known, then a handshake with an accepted root was handled
OverrideShortCircuitWitness ==
  /\ ENTRYPOINT # <<>>
  /\ AnsweredConfigFiles # {}
  /\ Len(fromHost) = 1 /\ Len(fromServer) = 1
  /\ toServer[1].kind = "respond"
  /\ workspaceRoot # JNull

\* C29 Entry-point search failure is recovered locally: a step in which
\* grep is run and yields no entry point leaves null in the cache, raises
\* no exception, writes the message being handled to the server and nothing
\* to the host; from then on the cache stays null and grep is not run again,
\* and every configuration answer given while the cache is null carries
\* configFile null.
SearchFailureRecovered ==
  /\ [][/\ (searches' > searches /\ detectedCssEntrypoint'.t # "string") =>
             /\ detectedCssEntrypoint' = JNull
             /\ ~uncaught'
             /\ Len(toServer') > Len(toServer)
             /\ toHost' = toHost
        /\ detectedCssEntrypoint = JNull =>
             detectedCssEntrypoint' = JNull /\ searches' = searches]_vars
  /\ [](detectedCssEntrypoint = JNull => AnsweredConfigFiles \subseteq {JNull})

\* the search has failed during a handshake, the handshake was forwarded and
\* a configuration query after it was answered
SearchFailureRecoveredWitness ==
  /\ searches = 1
  /\ detectedCssEntrypoint = JNull
  /\ Len(toServer) = 2
  /\ toServer[1].kind = "forward"
  /\ toServer[2].kind = "respond"
  /\ AnsweredConfigFiles = {JNull}
  /\ ~uncaught

(* Properties of the entry-point selection. *)
FirstFive(lines) == SubSeq(lines, 1, IF Len(lines) < 5 THEN Len(lines) ELSE 5)

\* file f is named priority and lies in the root or in its src subdirectory
DirectlyIn(f, root, priority) ==
  f = root \o <<47>> \o priority \/ f = root \o Utf8("/src/") \o priority

RelativeTo(f, root) ==
  IF startsWith(f, root \o <<47>>) THEN SubSeq(f, Len(root) + 2, Len(f)) ELSE f

\* the priorities for which a considered match lies in the root or in src
Preferred(files, root) ==
  {i \in 1..Len(priorities) : \E n \in 1..Len(files) : DirectlyIn(files[n], root, priorities[i])}

\* the paths the selection may return: a match of the highest priority
\* present in the root or in src, else the first match; relative to the root
Selectable(lines, root) ==
  With(FirstFive(lines), LAMBDA files :
    IF Preferred(files, root) # {}
      THEN {JStr(RelativeTo(files[n], root)) :
              n \in {n \in 1..Len(files) :
                       \E i \in Preferred(files, root) :
                         /\ \A j \in Preferred(files, root) : i <= j
                         /\ DirectlyIn(files[n], root, priorities[i])}}
      ELSE {JStr(RelativeTo(files[1], root))})

\* C30 Entry-point selection: the path returned for the output of a search
\* is, among the first five matches, one named by the highest-priority
\* filename that occurs directly in the workspace root or in its src
\* subdirectory; when no match is such a file it is the first match; and it
\* is relative to the root.
EntryPointSelection ==
  uArg \in SearchOutputs /\ uRet # <<>> => uRet[1] \in Selectable(uArg.lines, uArg.root)

\* write n on the server-bound stream answers a configuration query
IsConfigurationAnswer(n) ==
  /\ toServer[n].kind = "respond"
  /\ F(fromServer[toServer[n].of], "method") = S("workspace/configuration")

\* the configFile values of the tailwindCSS entries of write n
ConfigFilesOf(n) ==
  {F(F(F(Decoded(toServer[n])[1], "result").v[k], "experimental"), "configFile") :
     k \in {k \in 1..Len(F(F(fromServer[toServer[n].of], "params"), "items").v) :
              F(F(F(fromServer[toServer[n].of], "params"), "items").v[k], "section")
                = S("tailwindCSS")}}

\* C31 Eager resolution at handshake: once a handshake whose root is
\* accepted has been handled (the Workspace Root is set) the cache is no
\* longer "not yet searched"; every configuration answer written after the
\* forward of such a handshake carries the cached value as configFile (null
\* when nothing was found); and no step after the handshake runs grep.
EagerResolution ==
  /\ [](workspaceRoot # JNull => detectedCssEntrypoint # Undefined)
  /\ [](\A m, n \in 1..Len(toServer) :
          (/\ m < n
           /\ toServer[m].kind = "forward"
           /\ toServer[m].of \in AcceptedRoots
           /\ IsConfigurationAnswer(n))
            => /\ ConfigFilesOf(n) = {detectedCssEntrypoint}
               /\ detectedCssEntrypoint.t \in {"string", "null"})
  /\ [][workspaceRoot # JNull => searches' = searches]_vars

\* the handshake's search found an entry point and a configuration query
\* after it was answered with it
EagerResolutionWitness ==
  /\ searches = 1
  /\ detectedCssEntrypoint.t = "string"
  /\ Len(toServer) = 2
  /\ toServer[1].kind = "forward" /\ toServer[1].of \in AcceptedRoots
  /\ IsConfigurationAnswer(2)
  /\ ConfigFilesOf(2) = {detectedCssEntrypoint}

(* Properties of the encoder. *)
\* the number a frame's header declares, and the number of bytes that follow
\* the header terminator
DeclaredLength(bytes) ==
  parseInt(matchContentLength(SubSeq(bytes, 1, indexOf(bytes, CRLFCRLF, 0))))
BodyLength(bytes) == Len(bytes) - (indexOf(bytes, CRLFCRLF, 0) + 4)

\* C32 Encoded length is exact: the Content-Length value of every frame
\* encodeMessage produces is the number of bytes that follow the header
\* terminator; and when an input made of such frames has been fed, every
\* frame has given its own message and no byte is left in the decoder.
EncodedLengthExact ==
  /\ \A n \in 1..Len(cSegs) :
       cSegs[n].kind = "frame" =>
         /\ indexOf(cSegs[n].bytes, CRLFCRLF, 0) > 0
         /\ DeclaredLength(cSegs[n].bytes) = BodyLength(cSegs[n].bytes)
         /\ SubSeq(cSegs[n].bytes, indexOf(cSegs[n].bytes, CRLFCRLF, 0) + 5,
                   Len(cSegs[n].bytes)) = JSONstringify(cSegs[n].msg)
  /\ (AllFrames /\ cMode # "idle" /\ cFed = Len(cIn)) =>
       /\ cOut = FrameMessages(cSegs)
       /\ cBuf = NewMessageBuffer

\* a frame whose body has more bytes than characters, followed by another
\* frame: both have been decoded
EncodedLengthExactWitness ==
  /\ Len(cSegs) = 2
  /\ AllFrames
  /\ stringLength(JSONstringify(cSegs[1].msg)) < BodyLength(cSegs[1].bytes)
  /\ cFed = Len(cIn)
  /\ cOut = <<cSegs[1].msg, cSegs[2].msg>>

\* C33 Launch failure fails fast: when the server program cannot be
\* started the adapter exits, with status 1, from the handler of the error
\* event (which writes the diagnostic), and until then no host message is
\* decoded, nothing is written to the server and nothing to the host,
\* whatever the host has written meanwhile.
LaunchFailureFailsFast ==
  /\ [](server.state = "failed" =>
          /\ fromHost = <<>> /\ toServer = <<>> /\ toHost = <<>>
          /\ clientBuffer = NewMessageBuffer
          /\ adapter.state = "exited" => adapter = Exited(1, "error"))
  /\ (server.state = "failed" ~> adapter.state = "exited")

\* the launch failed and the adapter has exited while bytes of the host were
\* waiting on its stdin
LaunchFailureFailsFastWitness ==
  /\ server.state = "failed"
  /\ adapter = Exited(1, "error")
  /\ hostPipe # <<>>

(* Properties of the classification of server messages. *)
IsShowMessage(m) == ~HasId(m) /\ F(m, "method") = S("window/showMessage")

\* C34 window/showMessage is absorbed: for a window/showMessage notification
\* of the server nothing is written to the host: no write is made on its
\* account and its content does not appear on the host-bound stream.
ShowMessageAbsorbed ==
  \A k \in 1..Len(fromServer) :
    IsShowMessage(fromServer[k]) =>
      \A n \in 1..Len(toHost) :
        toHost[n].of # k /\ Decoded(toHost[n]) # <<fromServer[k]>>

\* C35 Peers see only well-formed messages or silence: no exception leaves
\* a handler, and every decoded message, whatever its payload, has exactly
\* one outcome: a host message is forwarded once; a server message is
\* answered once, or forwarded once, or, being a $/progress or
\* window/logMessage notification, absorbed without a write.  (The messages
\* of a chunk are decoded together, so a message that is decoded and has no
\* outcome was kept from being handled.)
WellFormedOrSilence ==
  /\ ~uncaught
  /\ \A k \in 1..Len(fromHost) : Cardinality(WritesFor(toServer, "forward", k)) = 1
  /\ \A k \in 1..Len(fromServer) :
       /\ Cardinality(WritesFor(toServer, "respond", k))
            + Cardinality(WritesFor(toHost, "forward", k)) <= 1
       /\ Cardinality(WritesFor(toServer, "respond", k))
            + Cardinality(WritesFor(toHost, "forward", k)) = 0
              => AbsorbedNotification(fromServer[k])

\* the value is a resolved path to an existing, accessible directory that is
\* no deny-listed directory and lies under none
SafeRoot(root) ==
  /\ IsString(root)
  /\ ResolvedPath(root.v) = root.v
  /\ root.v \in Directories
  /\ ~Inaccessible(root.v)
  /\ ~DenyListed(root.v)

\* C36 Workspace Root safety invariant: in every reachable state the
\* Workspace Root is unset or a resolved path to an existing directory that
\* is neither a deny-listed directory nor under one; and a step that runs
\* the entry-point search runs it on such a root.
WorkspaceRootSafety ==
  /\ [](workspaceRoot = JNull \/ SafeRoot(workspaceRoot))
  /\ [][searches' > searches => workspaceRoot' # JNull /\ SafeRoot(workspaceRoot')]_vars

\* a handshake naming a directory under /etc by way of ".." was handled and
\* left the root unset; the next one set it to /w/src and the search ran
WorkspaceRootSafetyWitness ==
  /\ Len(fromHost) = 2
  /\ F(F(fromHost[1], "params"), "rootPath") = S("/w/../etc/ssl")
  /\ workspaceRoot = S("/w/src")
  /\ searches = 1

\* C37 Server-message classification: a server message is answered on the
\* server-bound stream if and only if it has an id and one of the four
\* intercepted methods; nothing is written for it if and only if it has no
\* id and its method is $/progress or window/logMessage; every other server
\* message is forwarded to the host, once and unchanged; whatever its
\* params, the session state and the handshake.
ServerMessageClassification ==
  \A k \in 1..Len(fromServer) :
    /\ WritesFor(toServer, "respond", k) # {} <=> InterceptedRequest(fromServer[k])
    /\ (WritesFor(toServer, "respond", k) = {} /\ WritesFor(toHost, "forward", k) = {})
         <=> AbsorbedNotification(fromServer[k])
    /\ (~InterceptedRequest(fromServer[k]) /\ ~AbsorbedNotification(fromServer[k])) =>
         /\ Cardinality(WritesFor(toHost, "forward", k)) = 1
         /\ \A n \in WritesFor(toHost, "forward", k) : Decoded(toHost[n]) = <<fromServer[k]>>

(* Properties of the decoders of the session. *)
\* awaiting headers with no header terminator buffered, or awaiting a body
\* longer than what is buffered
AtRest(mb) ==
  \/ mb.contentLength = <<>> /\ indexOf(mb.buffer, CRLFCRLF, 0) = 0 - 1
  \/ mb.contentLength # <<>> /\ mb.contentLength[1] > Len(mb.buffer)

\* every turn of the loop run on this buffer stops or leaves a shorter buffer
RECURSIVE TurnsShrink(_, _)
TurnsShrink(buffer, contentLength) ==
  With(feedTurn(buffer, contentLength, <<>>), LAMBDA turn :
    \/ turn.done
    \/ /\ Len(turn.buffer) < Len(buffer)
       /\ TurnsShrink(turn.buffer, turn.contentLength))

\* the bytes a data event took off a pipe in this step
Taken(pipe, rest) == SubSeq(pipe, 1, Len(pipe) - Len(rest))

\* C39 Decoder state invariant: between data events each decoder is at rest
\* (awaiting headers with no terminator buffered, or awaiting a body of a
\* declared length greater than the number of bytes buffered); in a data
\* event every turn of the loop stops or shortens the buffer; and a data
\* event of one direction leaves that direction's decoder as feed leaves it
\* given its own former state and the chunk, and the other direction's
\* decoder as it was.
DecoderStateInvariant ==
  /\ [](AtRest(clientBuffer) /\ AtRest(serverBuffer))
  /\ [][/\ Len(hostPipe') < Len(hostPipe) =>
             /\ TurnsShrink(clientBuffer.buffer \o Taken(hostPipe, hostPipe'),
                            clientBuffer.contentLength)
             /\ With(feed(clientBuffer, Taken(hostPipe, hostPipe')), LAMBDA r :
                  clientBuffer' = [buffer |-> r.buffer, contentLength |-> r.contentLength])
             /\ serverBuffer' = serverBuffer
        /\ Len(serverPipe') < Len(serverPipe) =>
             /\ TurnsShrink(serverBuffer.buffer \o Taken(serverPipe, serverPipe'),
                            serverBuffer.contentLength)
             /\ With(feed(serverBuffer, Taken(serverPipe, serverPipe')), LAMBDA r :
                  serverBuffer' = [buffer |-> r.buffer, contentLength |-> r.contentLength])
             /\ clientBuffer' = clientBuffer]_vars

\* both decoders await the rest of a body, and the host's has bytes of it
DecoderStateInvariantWitness ==
  /\ clientBuffer.contentLength # <<>>
  /\ clientBuffer.buffer # <<>>
  /\ serverBuffer.contentLength # <<>>
  /\ fromHost # <<>>

\* C38 Server-bound stream integrity under interleaving: the bytes written
\* to the server's stdin, taken as one stream, decode to one message per
\* write with no byte left over; each is the forward of a decoded host
\* message or the response to a decoded intercepted request, with that
\* message's id; and the forwards among them are in the order of the host's
\* messages, the responses in the order of the server's requests.
ServerStreamIntegrity ==
  With(feed(NewMessageBuffer, Flatten(toServer)), LAMBDA stream :
    /\ stream.buffer = <<>> /\ stream.contentLength = <<>>
    /\ Len(stream.messages) = Len(toServer)
    /\ \A n \in 1..Len(toServer) :
         /\ Decoded(toServer[n]) = <<stream.messages[n]>>
         /\ toServer[n].kind \in {"forward", "respond"}
         /\ toServer[n].kind = "forward" =>
              /\ toServer[n].of \in 1..Len(fromHost)
              /\ F(stream.messages[n], "id") = F(fromHost[toServer[n].of], "id")
              /\ F(stream.messages[n], "method") = F(fromHost[toServer[n].of], "method")
         /\ toServer[n].kind = "respond" =>
              /\ toServer[n].of \in 1..Len(fromServer)
              /\ InterceptedRequest(fromServer[toServer[n].of])
              /\ F(stream.messages[n], "id") = F(fromServer[toServer[n].of], "id")
              /\ F(stream.messages[n], "method") = Undefined
    /\ Increasing(Forwards(toServer))
    /\ Increasing(Responses(toServer)))

\* a response was written after a forward while part of a later frame of
\* the host was waiting in the decoder of the host's stream
ServerStreamIntegrityWitness ==
  /\ Len(toServer) >= 2
  /\ toServer[Len(toServer) - 1].kind = "forward"
  /\ toServer[Len(toServer)].kind = "respond"
  /\ clientBuffer.buffer # <<>>

====
